---- MODULE Spec2Model ----
(***************************************************************************)
(* The incremental translation orchestrator of .github/scripts/translator. *)
(*                                                                         *)
(* A text (a Python str) is a sequence of one-character strings.  A JSON   *)
(* value is a record [tag, val]: tag "str" with val = <<text>>, tag "list" *)
(* with val = the list of texts, tag "other" (number, null, object) with   *)
(* val = <<>>.  A dict is a function from keys to values.  Temperatures    *)
(* are in tenths (1.3 is 13).                                              *)
(***************************************************************************)
EXTENDS Integers, Sequences, FiniteSets, TLC

VARIABLES
    \* ---- validate_placeholder_consistency applied to one pair of texts
    original_text,
    translated_text,
    accepted,
    \* ---- the translator object, shared by every worker thread
    non_thinking_mode,      \* self.non_thinking_mode
    configured_mode,        \* its value at construction (never assigned again)
    \* ---- execute_requests_concurrently
    requests,               \* the list of TranslationRequest it was called with
    service,                \* per request: the kinds of response the service gives it
    results_by_namespace_and_language,
    collected,              \* the futures as_completed has yielded so far
    \* ---- execute_translation_request, one worker thread per request
    pc,
    api_failure_count,
    validation_failure_count,
    total_attempts,
    temperature,
    thinking_mode,
    original_mode,
    model,                  \* translate_batch's local: the variant sent to the service
    wait_time,
    last_outcome,           \* the kind of the service's last response
    result,                 \* the mapping the worker returned
    \* ---- the files and the environment of a run of main()
    force_translate,        \* FORCE_TRANSLATE is 'true'
    TARGET_LANGUAGES,       \* the catalogue of target languages, in the file's order
    reference,              \* per namespace: the merged reference of its assets
    store,                  \* per namespace and language: the file under translate/
    \* ---- run_smart_translation and continue_full_translation
    phase,                  \* where the run is
    runs,                   \* the runs started so far
    file_changes,           \* the change items of the run
    all_translation_tasks,
    saved,                  \* the tasks the save loop has gone through
    api_key,                \* DEEPSEEK_API_KEY, "" when it is not set
    exit_code,              \* <<n>> once sys.exit(n) was called, <<>> before
    git_diff,               \* how `git diff` ended in this run, "none" before it ran
    \* ---- one call of a function of the change detector or of the batching
    call,                   \* the function and its arguments
    returned                \* [done, value]: whether it has returned, and what

ph_vars == <<original_text, translated_text, accepted>>

translator_vars == <<non_thinking_mode, configured_mode>>

run_vars == <<requests, service, results_by_namespace_and_language, collected>>

worker_vars ==
    <<pc, api_failure_count, validation_failure_count, total_attempts, temperature,
      thinking_mode, original_mode, model, wait_time, last_outcome, result>>

exec_vars == <<translator_vars, run_vars, worker_vars>>

file_vars == <<force_translate, TARGET_LANGUAGES, reference, store>>

flow_vars == <<file_vars, phase, runs, file_changes, all_translation_tasks, saved>>

env_vars == <<api_key, exit_code, git_diff>>

call_vars == <<call, returned>>

vars == <<ph_vars, exec_vars, flow_vars, env_vars, call_vars>>

----------------------------------------------------------------------------
(* Bounds of the model *)

\* texts of the placeholder check are concatenations of at most MaxPieces pieces
MaxPieces == 2

\* in a run of several requests, the failures of the service on each channel
MaxApiFaults == 1

MaxValidationFaults == 7

\* the runs of main() in a row, and how many of them the service fails in
MaxRuns == 2

MaxFailingRuns == 1

----------------------------------------------------------------------------
(* Texts *)

Str(s) == [tag |-> "str", val |-> <<s>>]
List(l) == [tag |-> "list", val |-> l]
Other == [tag |-> "other", val |-> <<>>]

isinstance_str(v) == v.tag = "str"
isinstance_list(v) == v.tag = "list"

\* code points of the characters the model uses
Ord(c) ==
    CASE c = " " -> 32
      [] c = "$" -> 36
      [] c = "%" -> 37
      [] c = "1" -> 49
      [] c = "2" -> 50
      [] c = "a" -> 97
      [] c = "b" -> 98
      [] c = "s" -> 115

IsDigit(c) == c \in {"1", "2"}

\* Python's str comparison a < b: by code point, a proper prefix first
RECURSIVE StrLess(_, _)
StrLess(a, b) ==
    IF b = <<>> THEN FALSE
    ELSE IF a = <<>> THEN TRUE
    ELSE IF Ord(Head(a)) # Ord(Head(b)) THEN Ord(Head(a)) < Ord(Head(b))
    ELSE StrLess(Tail(a), Tail(b))

\* insertion of x into a sorted list, after the elements that are not greater
RECURSIVE InsertSorted(_, _)
InsertSorted(x, l) ==
    IF l = <<>> THEN <<x>>
    ELSE IF StrLess(x, Head(l)) THEN <<x>> \o l
    ELSE <<Head(l)>> \o InsertSorted(x, Tail(l))

\* Python's sorted(l) for a list of str
RECURSIVE sorted(_)
sorted(l) ==
    IF l = <<>> THEN <<>> ELSE InsertSorted(Head(l), sorted(Tail(l)))

\* the number of digits of text from position i on
RECURSIVE DigitRun(_, _)
DigitRun(text, i) ==
    IF i <= Len(text) /\ IsDigit(text[i]) THEN 1 + DigitRun(text, i + 1) ELSE 0

\* the length of the match of  %(?:\d+\$)?s  at position i of text, 0 for none
MatchAt(text, i) ==
    IF text[i] # "%" THEN 0
    ELSE LET d == DigitRun(text, i + 1) IN
         IF /\ d >= 1
            /\ i + d + 2 <= Len(text)
            /\ text[i + d + 1] = "$"
            /\ text[i + d + 2] = "s"
         THEN d + 3
         ELSE IF i + 1 <= Len(text) /\ text[i + 1] = "s" THEN 2
         ELSE 0

\* re.findall(r'%(?:\d+\$)?s', text) from position i: the non-overlapping
\* matches, left to right
RECURSIVE FindAllFrom(_, _)
FindAllFrom(text, i) ==
    IF i > Len(text) THEN <<>>
    ELSE LET n == MatchAt(text, i) IN
         IF n > 0 THEN <<SubSeq(text, i, i + n - 1)>> \o FindAllFrom(text, i + n)
         ELSE FindAllFrom(text, i + 1)

findall_placeholders(text) == FindAllFrom(text, 1)

\* a plausible slip: the two lists of matches compared without sorting them
validate_placeholder_consistency_unsorted(original, translated) ==
    findall_placeholders(original) = findall_placeholders(translated)

validate_placeholder_consistency(original, translated) ==
    sorted(findall_placeholders(original)) = sorted(findall_placeholders(translated))

----------------------------------------------------------------------------
(* Program constants (translator/config.py) *)

MAX_INDIVIDUAL_RETRIES == 10

TEMPERATURE_ADJUSTMENTS == <<13, 13, 12, 10, 7>>

DEFAULT_TEMPERATURE == 13

\* the temperature of an attempt made before any validation failure
FIRST_TEMPERATURE == 13

\* the seconds slept after a validation failure and after an API failure
VALIDATION_WAIT == 1

API_WAIT == 5

----------------------------------------------------------------------------
(* Dicts *)

EmptyDict == <<>>

Keys(d) == DOMAIN d

\* a key written as a text, as the entries of the '__core_keys__' list are
KeyText(k) == <<k>>

\* a plausible slip: the bucket replaced by the newest result
dict_update_overwrite(d, other) == other

dict_update_known_keys_only(d, other) ==
    [k \in Keys(d) |-> IF k \in Keys(other) THEN other[k] ELSE d[k]]

\* d.update(other)
dict_update(d, other) ==
    [k \in Keys(d) \cup Keys(other) |-> IF k \in Keys(other) THEN other[k] ELSE d[k]]

\* d[k] = v
dict_set(d, k, v) == [x \in Keys(d) \cup {k} |-> IF x = k THEN v ELSE d[x]]

\* {k: v for k, v in texts.items() if k != '__core_keys__'}
strip_core_keys_marker(texts) == [k \in Keys(texts) \ {"__core_keys__"} |-> texts[k]]

----------------------------------------------------------------------------
(* DeepSeekTranslator.validate_translation_result *)

reference_value(original_value) ==
    IF isinstance_list(original_value)
    THEN IF original_value.val # <<>> THEN original_value.val[1] ELSE <<>>
    ELSE original_value.val[1]

\* a plausible slip: the placeholder check left out
validate_translation_result_no_placeholders(original, translated) ==
    LET original_keys == Keys(original)
        translated_keys == Keys(translated)
    IN  { [error |-> "missing_keys", key |-> k] : k \in original_keys \ translated_keys }
        \cup
        { [error |-> "extra_keys", key |-> k] : k \in translated_keys \ original_keys }
        \cup
        { [error |-> "not_a_string", key |-> k] :
            k \in { x \in original_keys \cap translated_keys :
                       ~isinstance_str(translated[x]) } }

\* a plausible slip: the key sets not compared
validate_translation_result_shared_keys_only(original, translated) ==
    LET shared == Keys(original) \cap Keys(translated)
    IN  { [error |-> "not_a_string", key |-> k] :
            k \in { x \in shared : ~isinstance_str(translated[x]) } }
        \cup
        { [error |-> "placeholder_mismatch", key |-> k] :
            k \in { x \in shared :
                      /\ isinstance_str(translated[x])
                      /\ ~validate_placeholder_consistency(
                             reference_value(original[x]), translated[x].val[1]) } }

\* a plausible slip: the type of the translated values not checked
validate_translation_result_any_type(original, translated) ==
    LET original_keys == Keys(original)
        translated_keys == Keys(translated)
        shared == original_keys \cap translated_keys
    IN  { [error |-> "missing_keys", key |-> k] : k \in original_keys \ translated_keys }
        \cup
        { [error |-> "extra_keys", key |-> k] : k \in translated_keys \ original_keys }
        \cup
        { [error |-> "placeholder_mismatch", key |-> k] :
            k \in { x \in shared :
                      /\ isinstance_str(translated[x])
                      /\ ~validate_placeholder_consistency(
                             reference_value(original[x]), translated[x].val[1]) } }

\* the set of errors found; the empty set means the result is valid
validate_translation_result(original, translated) ==
    LET original_keys == Keys(original)
        translated_keys == Keys(translated)
        shared == original_keys \cap translated_keys
    IN  { [error |-> "missing_keys", key |-> k] : k \in original_keys \ translated_keys }
        \cup
        { [error |-> "extra_keys", key |-> k] : k \in translated_keys \ original_keys }
        \cup
        { [error |-> "not_a_string", key |-> k] :
            k \in { x \in shared : ~isinstance_str(translated[x]) } }
        \cup
        { [error |-> "placeholder_mismatch", key |-> k] :
            k \in { x \in shared :
                      /\ isinstance_str(translated[x])
                      /\ ~validate_placeholder_consistency(
                             reference_value(original[x]), translated[x].val[1]) } }

----------------------------------------------------------------------------
(* DeepSeekTranslator.translate_batch, from the HTTP call on.  A response of   *)
(* the service is [kind, dict]: "transport" (the call, its status or its       *)
(* envelope fails), "unparsable" (the reply text is no JSON), "not_a_mapping"  *)
(* (the reply is JSON but no object), "mapping" (the reply is the object dict) *)

Raised(error) == [raised |-> TRUE, error |-> error, value |-> EmptyDict]

Returned(value) == [raised |-> FALSE, error |-> "", value |-> value]

\* the error texts: "json_parse_failed" is 'JSON解析失败: ...', "validation_failed" is
\* '翻译验证失败: ...', the others are the texts of the exceptions of requests and json
translate_batch_response(texts, response) ==
    LET texts_to_translate == strip_core_keys_marker(texts) IN
    CASE response.kind = "transport" -> Raised("request_failed")
      [] response.kind = "unparsable" -> Raised("json_parse_failed")
      [] response.kind = "not_a_mapping" -> Raised("attribute_error")
      [] response.kind = "mapping" ->
            IF validate_translation_result(texts_to_translate, response.dict) # {}
            THEN Raised("validation_failed")
            ELSE Returned(response.dict)

\* a plausible slip: any error text with "failed" in it taken for a validation error
is_validation_error_loose(error) ==
    error \in {"validation_failed", "json_parse_failed", "request_failed"}

\* "翻译验证失败" in error_str
is_validation_error(error) == error = "validation_failed"

ModelFor(mode) == IF mode THEN "deepseek-chat" ELSE "deepseek-reasoner"

----------------------------------------------------------------------------
(* DeepSeekTranslator.execute_translation_request *)

\* a plausible slip: the variant never flipped
get_temperature_and_mode_no_flip(validation_attempt, self_non_thinking_mode) ==
    IF validation_attempt <= 5
    THEN <<TEMPERATURE_ADJUSTMENTS[validation_attempt], self_non_thinking_mode>>
    ELSE <<TEMPERATURE_ADJUSTMENTS[((validation_attempt - 6) % 5) + 1],
           self_non_thinking_mode>>

\* temperatures[i] of the code is TEMPERATURE_ADJUSTMENTS[i + 1] here
get_temperature_and_mode(validation_attempt, self_non_thinking_mode) ==
    IF validation_attempt <= 5
    THEN <<TEMPERATURE_ADJUSTMENTS[validation_attempt], self_non_thinking_mode>>
    ELSE <<TEMPERATURE_ADJUSTMENTS[((validation_attempt - 6) % 5) + 1],
           ~self_non_thinking_mode>>

\* a plausible slip: `or` for `and` in the loop condition
may_retry_either(api_failures, validation_failures) ==
    \/ api_failures < MAX_INDIVIDUAL_RETRIES
    \/ validation_failures < MAX_INDIVIDUAL_RETRIES

\* api_failure_count < max_individual_retries and
\* validation_failure_count < max_individual_retries
may_retry(api_failures, validation_failures) ==
    /\ api_failures < MAX_INDIVIDUAL_RETRIES
    /\ validation_failures < MAX_INDIVIDUAL_RETRIES

Workers == DOMAIN requests

\* the head of the while loop, up to the first read of self.non_thinking_mode
BeginAttempt(r) ==
    /\ pc[r] = "loop"
    /\ may_retry(api_failure_count[r], validation_failure_count[r])
    /\ total_attempts' = [total_attempts EXCEPT ![r] = @ + 1]
    /\ IF validation_failure_count[r] > 0
       THEN LET tm == get_temperature_and_mode(validation_failure_count[r],
                                               non_thinking_mode)
            IN  /\ temperature' = [temperature EXCEPT ![r] = tm[1]]
                /\ thinking_mode' = [thinking_mode EXCEPT ![r] = tm[2]]
                /\ pc' = [pc EXCEPT ![r] = "save_mode"]
                /\ UNCHANGED original_mode
       ELSE /\ temperature' = [temperature EXCEPT ![r] = FIRST_TEMPERATURE]
            /\ original_mode' = [original_mode EXCEPT ![r] = non_thinking_mode]
            /\ pc' = [pc EXCEPT ![r] = "translate"]
            /\ UNCHANGED thinking_mode
    /\ UNCHANGED <<env_vars, call_vars, ph_vars, flow_vars, translator_vars, run_vars, api_failure_count,
                   validation_failure_count, model, wait_time, last_outcome, result>>

\* original_mode = self.non_thinking_mode
SaveMode(r) ==
    /\ pc[r] = "save_mode"
    /\ original_mode' = [original_mode EXCEPT ![r] = non_thinking_mode]
    /\ pc' = [pc EXCEPT ![r] = "set_mode"]
    /\ UNCHANGED <<env_vars, call_vars, ph_vars, flow_vars, translator_vars, run_vars, api_failure_count,
                   validation_failure_count, total_attempts, temperature, thinking_mode,
                   model, wait_time, last_outcome, result>>

\* self.non_thinking_mode = thinking_mode
SetMode(r) ==
    /\ pc[r] = "set_mode"
    /\ non_thinking_mode' = thinking_mode[r]
    /\ pc' = [pc EXCEPT ![r] = "translate"]
    /\ UNCHANGED <<env_vars, call_vars, ph_vars, flow_vars, configured_mode, run_vars, api_failure_count,
                   validation_failure_count, total_attempts, temperature, thinking_mode,
                   original_mode, model, wait_time, last_outcome, result>>

\* translate_batch returned `value`: the mode is restored, an empty result counts
\* as a validation failure, any other result is returned
AfterReturn(r, value) ==
    /\ non_thinking_mode' =
          IF validation_failure_count[r] > 0 THEN original_mode[r] ELSE non_thinking_mode
    /\ IF Keys(value) = {}
       THEN /\ validation_failure_count' = [validation_failure_count EXCEPT ![r] = @ + 1]
            /\ IF validation_failure_count'[r] < MAX_INDIVIDUAL_RETRIES
               THEN pc' = [pc EXCEPT ![r] = "loop"]
               ELSE pc' = [pc EXCEPT ![r] = "done"]
            /\ result' = [result EXCEPT ![r] = EmptyDict]
       ELSE /\ pc' = [pc EXCEPT ![r] = "done"]
            /\ result' = [result EXCEPT ![r] = value]
            /\ UNCHANGED validation_failure_count
    /\ UNCHANGED <<env_vars, call_vars, api_failure_count, wait_time>>

\* a plausible slip: a validation failure is counted on both channels
AfterRaise_counting_both(r, error) ==
    /\ IF is_validation_error(error)
       THEN /\ validation_failure_count' = [validation_failure_count EXCEPT ![r] = @ + 1]
            /\ api_failure_count' = [api_failure_count EXCEPT ![r] = @ + 1]
            /\ wait_time' = [wait_time EXCEPT ![r] = VALIDATION_WAIT]
       ELSE /\ api_failure_count' = [api_failure_count EXCEPT ![r] = @ + 1]
            /\ wait_time' = [wait_time EXCEPT ![r] = API_WAIT]
            /\ UNCHANGED validation_failure_count
    /\ non_thinking_mode' =
          IF validation_failure_count'[r] > 0 THEN original_mode[r] ELSE non_thinking_mode
    /\ IF may_retry(api_failure_count'[r], validation_failure_count'[r])
       THEN pc' = [pc EXCEPT ![r] = "loop"]
       ELSE pc' = [pc EXCEPT ![r] = "done"]
    /\ result' = [result EXCEPT ![r] = EmptyDict]

\* translate_batch raised `error`: it is counted on one of the two channels, the
\* mode is restored, and the request is retried unless a counter is exhausted
AfterRaise(r, error) ==
    /\ IF is_validation_error(error)
       THEN /\ validation_failure_count' = [validation_failure_count EXCEPT ![r] = @ + 1]
            /\ wait_time' = [wait_time EXCEPT ![r] = VALIDATION_WAIT]
            /\ UNCHANGED api_failure_count
       ELSE /\ api_failure_count' = [api_failure_count EXCEPT ![r] = @ + 1]
            /\ wait_time' = [wait_time EXCEPT ![r] = API_WAIT]
            /\ UNCHANGED validation_failure_count
    /\ non_thinking_mode' =
          IF validation_failure_count'[r] > 0 THEN original_mode[r] ELSE non_thinking_mode
    /\ IF may_retry(api_failure_count'[r], validation_failure_count'[r])
       THEN pc' = [pc EXCEPT ![r] = "loop"]
       ELSE pc' = [pc EXCEPT ![r] = "done"]
    /\ result' = [result EXCEPT ![r] = EmptyDict]

\* translate_batch up to the choice of the model: nothing to translate returns {}
\* at once, otherwise self.non_thinking_mode is read
EnterTranslate(r) ==
    /\ pc[r] = "translate"
    /\ IF Keys(strip_core_keys_marker(requests[r].texts)) = {}
       THEN /\ AfterReturn(r, EmptyDict)
            /\ UNCHANGED model
       ELSE /\ model' = [model EXCEPT ![r] = ModelFor(non_thinking_mode)]
            /\ pc' = [pc EXCEPT ![r] = "call_api"]
            /\ UNCHANGED <<env_vars, call_vars, non_thinking_mode, api_failure_count,
                           validation_failure_count, wait_time, result>>
    /\ UNCHANGED <<env_vars, call_vars, ph_vars, flow_vars, configured_mode, run_vars, total_attempts, temperature,
                   thinking_mode, original_mode, last_outcome>>

----------------------------------------------------------------------------
(* The translation service: what it may answer to a request *)

SRC_TWO == <<"%", "1", "$", "s", " ", "a", " ", "%", "2", "$", "s">>

SRC_PLAIN == <<"a">>

SRC_FIRST == <<"%", "s", " ", "a">>

\* the translations the service may give for a source text: one that keeps the
\* placeholders (in another order) and one that does not; for SRC_FIRST, two that
\* keep them
CandidateTranslations(source) ==
    CASE source = SRC_TWO ->
            { <<"%", "2", "$", "s", " ", "b", " ", "%", "1", "$", "s">>,
              <<"b", " ", "%", "2", "$", "s">> }
      [] source = SRC_PLAIN -> { <<"b">>, <<"b", " ", "%", "s">> }
      [] source = SRC_FIRST -> { <<"b", " ", "%", "s">>, <<"%", "s", " ", "b">>, <<"b">> }
      [] OTHER -> { <<"b">> }

ReplyValues(source_value) ==
    { Str(t) : t \in CandidateTranslations(reference_value(source_value)) } \cup {Other}

\* keys the service may add to a reply
ExtraKeys == {"k9", "__core_keys__"}

\* the JSON objects over the keys ks: a candidate value for each key of the
\* payload sent, a plain text for any other key
RECURSIVE DictsOver(_, _)
DictsOver(ks, sent) ==
    IF ks = {} THEN {EmptyDict}
    ELSE LET k == CHOOSE x \in ks : TRUE
             values == IF k \in Keys(sent) THEN ReplyValues(sent[k]) ELSE {Str(<<"b">>)}
         IN  { dict_set(d, k, v) : d \in DictsOver(ks \ {k}, sent), v \in values }

\* the JSON objects the service may reply to the payload sent (the texts without
\* the marker): all keys, one key missing or one key too many
ReplyDicts(sent) ==
    LET key_sets == {Keys(sent)}
                    \cup { Keys(sent) \ {k} : k \in Keys(sent) }
                    \cup { Keys(sent) \cup {k} : k \in ExtraKeys }
    IN  UNION { DictsOver(ks, sent) : ks \in key_sets }

Responses(sent) ==
    { [kind |-> k, dict |-> EmptyDict] : k \in {"transport", "unparsable", "not_a_mapping"} }
    \cup { [kind |-> "mapping", dict |-> d] : d \in ReplyDicts(sent) }

\* what a response is, seen from outside the program
\* ("valid": a mapping the validation lets through; "same_keys": the keys of the
\* payload with a value the validation rejects)
ResponseKind(sent, response) ==
    IF response.kind # "mapping" THEN response.kind
    ELSE IF Keys(response.dict) # Keys(sent) THEN "key_mismatch"
    ELSE IF validate_translation_result(sent, response.dict) = {} THEN "valid"
    ELSE "same_keys"

ResponseKinds ==
    {"transport", "unparsable", "not_a_mapping", "key_mismatch", "same_keys", "valid"}

----------------------------------------------------------------------------
(* DeepSeekTranslator.execute_requests_concurrently: the loop over as_completed *)

\* the bucket of (namespace, target_lang), {} when there is none
Bucket(acc, namespace, target_lang) ==
    IF namespace \in DOMAIN acc /\ target_lang \in DOMAIN acc[namespace]
    THEN acc[namespace][target_lang]
    ELSE EmptyDict

Collect(r) ==
    /\ pc[r] = "done"
    /\ r \notin collected
    /\ collected' = collected \cup {r}
    /\ LET namespace == requests[r].namespace
           target_lang == requests[r].target_lang
           acc0 == results_by_namespace_and_language
           acc1 == IF namespace \notin DOMAIN acc0
                   THEN dict_set(acc0, namespace, EmptyDict) ELSE acc0
           acc2 == IF target_lang \notin DOMAIN acc1[namespace]
                   THEN [acc1 EXCEPT ![namespace] = dict_set(@, target_lang, EmptyDict)]
                   ELSE acc1
       IN  results_by_namespace_and_language' =
              [acc2 EXCEPT ![namespace][target_lang] = dict_update(@, result[r])]
    /\ UNCHANGED <<env_vars, call_vars, ph_vars, flow_vars, translator_vars, requests, service, worker_vars>>

----------------------------------------------------------------------------
(* Runs *)

TranslationRequest(id, texts, target_lang, namespace, batch_id, total_batches) ==
    [request_id |-> id, texts |-> texts, target_lang |-> target_lang,
     namespace |-> namespace, batch_id |-> batch_id, total_batches |-> total_batches]

CoreKeys(keys) == List([i \in 1..Len(keys) |-> KeyText(keys[i])])

\* payloads as the flow prepares them: a plain one, one with a context key and the
\* marker, one that is empty and one that holds the marker only
TextsPlain == [k \in {"k1", "k2"} |-> IF k = "k1" THEN Str(SRC_TWO) ELSE Str(SRC_PLAIN)]

TextsWithContext ==
    [k \in {"k1", "k2", "__core_keys__"} |->
        CASE k = "k1" -> Str(SRC_TWO)
          [] k = "k2" -> List(<<SRC_FIRST, SRC_PLAIN>>)
          [] OTHER -> CoreKeys(<<"k1">>)]

TextsMarkerOnly == [k \in {"__core_keys__"} |-> CoreKeys(<<"k1">>)]

\* the two batches of the payload k1, k2, k3 split two keys at a time with one
\* key of boundary context: k1, k2 with k3 after them, and k3 with k2 before it
TextsBatch1 ==
    [k \in {"k1", "k2", "k3", "__core_keys__"} |->
        CASE k = "k1" -> Str(SRC_TWO)
          [] k = "k2" -> Str(SRC_PLAIN)
          [] k = "k3" -> Str(SRC_FIRST)
          [] OTHER -> CoreKeys(<<"k1", "k2">>)]

TextsBatch2 ==
    [k \in {"k2", "k3", "__core_keys__"} |->
        CASE k = "k2" -> Str(SRC_PLAIN)
          [] k = "k3" -> Str(SRC_FIRST)
          [] OTHER -> CoreKeys(<<"k3">>)]

----------------------------------------------------------------------------
(* Dicts whose order of insertion matters: [order, map], order the list of   *)
(* the keys and map the dict itself                                          *)

OrderedDict(order, map) == [order |-> order, map |-> map]

EmptyOrderedDict == OrderedDict(<<>>, EmptyDict)

\* d[k] = v: a new key goes last, a known key keeps its place
od_set(d, k, v) ==
    OrderedDict(IF k \in Keys(d.map) THEN d.order ELSE Append(d.order, k),
                dict_set(d.map, k, v))

\* the elements of a list, and the list without repetitions (dict.fromkeys)
Elems(l) == { l[i] : i \in 1..Len(l) }

RECURSIVE dedup(_)
dedup(l) ==
    IF l = <<>> THEN <<>>
    ELSE LET front == dedup(SubSeq(l, 1, Len(l) - 1))
             last == l[Len(l)]
         IN  IF last \in Elems(front) THEN front ELSE Append(front, last)

\* l[a:b] of Python, a and b counted from 0
Slice(l, a, b) == SubSeq(l, a + 1, b)

Max(a, b) == IF a >= b THEN a ELSE b

Min(a, b) == IF a <= b THEN a ELSE b

\* l.index(x), counted from 1
IndexOf(l, x) == CHOOSE i \in 1..Len(l) : l[i] = x /\ \A j \in 1..(i - 1) : l[j] # x

RECURSIVE Concat(_)
Concat(ll) == IF ll = <<>> THEN <<>> ELSE Head(ll) \o Concat(Tail(ll))

----------------------------------------------------------------------------
(* file_ops.get_context_for_keys and the batching of translator.py *)

CONTEXT_SIZE == 4

\* a plausible slip: the whole budget on each side of the target key
context_keys_full_budget(source_keys, target_keys, max_context) ==
    Elems(target_keys) \cup
    UNION { LET idx == IndexOf(source_keys, key) - 1
                start == Max(0, idx - max_context)
                end == Min(Len(source_keys), idx + max_context + 1)
            IN  Elems(Slice(source_keys, start, end)) :
            key \in Elems(target_keys) \cap Elems(source_keys) }

\* a plausible slip: the context without the target keys themselves
context_keys_without_targets(source_keys, target_keys, max_context) ==
    UNION { LET idx == IndexOf(source_keys, key) - 1
                start == Max(0, idx - (max_context \div 2))
                end == Min(Len(source_keys), idx + (max_context \div 2) + 1)
            IN  Elems(Slice(source_keys, start, idx)) \cup
                Elems(Slice(source_keys, idx + 1, end)) :
            key \in Elems(target_keys) \cap Elems(source_keys) }

\* the keys within max_context // 2 places of a target key, the target keys included
context_keys(source_keys, target_keys, max_context) ==
    Elems(target_keys) \cup
    UNION { LET idx == IndexOf(source_keys, key) - 1
                start == Max(0, idx - (max_context \div 2))
                end == Min(Len(source_keys), idx + (max_context \div 2) + 1)
            IN  Elems(Slice(source_keys, start, idx)) \cup
                Elems(Slice(source_keys, idx + 1, end)) :
            key \in Elems(target_keys) \cap Elems(source_keys) }

\* a plausible slip: force_context is not looked at
get_context_for_keys_unforced(source_dict, target_keys, max_context, force_context) ==
    IF Len(source_dict.order) <= max_context
    THEN od_set(source_dict, "__core_keys__", CoreKeys(target_keys))
    ELSE LET result_keys == context_keys(source_dict.order, target_keys, max_context)
             unique_keys == SelectSeq(source_dict.order, LAMBDA k : k \in result_keys)
         IN  od_set(OrderedDict(unique_keys,
                                [k \in Elems(unique_keys) |-> source_dict.map[k]]),
                    "__core_keys__", CoreKeys(target_keys))

get_context_for_keys(source_dict, target_keys, max_context, force_context) ==
    IF force_context \/ Len(source_dict.order) <= max_context
    THEN od_set(source_dict, "__core_keys__", CoreKeys(target_keys))
    ELSE LET result_keys == context_keys(source_dict.order, target_keys, max_context)
             unique_keys == SelectSeq(source_dict.order, LAMBDA k : k \in result_keys)
         IN  od_set(OrderedDict(unique_keys,
                                [k \in Elems(unique_keys) |-> source_dict.map[k]]),
                    "__core_keys__", CoreKeys(target_keys))

\* the keys of the batch that starts at item i: its core keys, then its context
batch_core_overlapping(items, i, batch_size) ==
    Slice(items, Max(0, i - 1), Min(i + batch_size, Len(items)))

batch_core(items, i, batch_size) == Slice(items, i, Min(i + batch_size, Len(items)))

\* a plausible slip: every batch treated as an interior one
batch_context_halved(items, i, batch_size, context_size) ==
    LET total_items == Len(items)
        batch_end == Min(i + batch_size, total_items)
        half_context == context_size \div 2
    IN  Slice(items, Max(0, i - half_context), i)
        \o Slice(items, batch_end, Min(batch_end + half_context, total_items))

batch_context(items, i, batch_size, context_size) ==
    LET total_items == Len(items)
        batch_end == Min(i + batch_size, total_items)
        half_context == context_size \div 2
    IN  IF i = 0
        THEN Slice(items, batch_end, Min(batch_end + context_size, total_items))
        ELSE IF batch_end >= total_items
        THEN Slice(items, Max(0, i - context_size), i)
        ELSE Slice(items, Max(0, i - half_context), i)
             \o Slice(items, batch_end, Min(batch_end + half_context, total_items))

split_texts_with_context_guarantee(texts, batch_size, context_size) ==
    LET items == texts.order
        total_items == Len(items)
        n_batches == (total_items + batch_size - 1) \div batch_size
        batch(b) ==
            LET i == (b - 1) * batch_size
                core_items == batch_core(items, i, batch_size)
                batch_items == core_items \o batch_context(items, i, batch_size, context_size)
            IN  od_set(OrderedDict(batch_items,
                                   [k \in Elems(batch_items) |-> texts.map[k]]),
                       "__core_keys__", CoreKeys(core_items))
    IN  IF total_items = 0 THEN <<>>
        ELSE IF total_items <= batch_size THEN <<texts>>
        ELSE [b \in 1..n_batches |-> batch(b)]

\* str(value)
str(value) == IF isinstance_str(value) THEN value.val[1] ELSE <<"?">>

prepare_texts_for_translation(texts) ==
    OrderedDict(texts.order,
                [k \in Keys(texts.map) |->
                    IF isinstance_list(texts.map[k]) THEN texts.map[k]
                    ELSE Str(str(texts.map[k]))])

\* the requests for one language, numbered from first_id on
requests_for_language(all_texts, target_lang, batch_size, namespace, first_id) ==
    IF Len(all_texts.order) > batch_size
    THEN LET batches == split_texts_with_context_guarantee(all_texts, batch_size, CONTEXT_SIZE)
         IN  [b \in 1..Len(batches) |->
                TranslationRequest(first_id + b - 1, batches[b].map, target_lang,
                                   namespace, b, Len(batches))]
    ELSE << TranslationRequest(first_id, all_texts.map, target_lang, namespace, 1, 1) >>

\* namespace or "unknown" (an absent namespace is "")
namespace_or_unknown(namespace) == IF namespace = "" THEN "unknown" ELSE namespace

RECURSIVE prepare_translation_requests(_, _, _, _)
prepare_translation_requests(all_texts, target_languages, batch_size, namespace) ==
    IF target_languages = <<>> THEN <<>>
    ELSE LET n == Len(target_languages)
             before == prepare_translation_requests(
                           all_texts, SubSeq(target_languages, 1, n - 1), batch_size, namespace)
         IN  before \o requests_for_language(all_texts, target_languages[n], batch_size,
                                             namespace_or_unknown(namespace),
                                             Len(before) + 1)

----------------------------------------------------------------------------
(* The files: the merged reference of each namespace (file_ops.              *)
(* get_merged_reference_translations, an ordered dict) and the stores under  *)
(* translate/.  A store is [exists, data]: whether the file is there, and    *)
(* the dict it holds.                                                        *)

\* the order in which the assets directory lists its namespaces
NamespaceOrder == <<"ns1", "ns2">>

get_namespace_list == SelectSeq(NamespaceOrder, LAMBDA n : n \in DOMAIN reference)

get_merged_reference_translations(namespace) ==
    IF namespace \in DOMAIN reference THEN reference[namespace] ELSE EmptyOrderedDict

NoFile == [exists |-> FALSE, data |-> EmptyDict]

File(data) == [exists |-> TRUE, data |-> data]

translate_file_exists(files, namespace, lang_code) == files[namespace][lang_code].exists

load_namespace_translations_from_translate(files, namespace, lang_code) ==
    IF files[namespace][lang_code].exists THEN files[namespace][lang_code].data
    ELSE EmptyDict

save_namespace_translations(files, namespace, lang_code, translations) ==
    [files EXCEPT ![namespace][lang_code] = File(translations)]

----------------------------------------------------------------------------
(* The change items of a run: config.KeyChange and config.FileChanges *)

None == [tag |-> "none", val |-> <<>>]

KeyChange(key, old_value, new_value, operation) ==
    [key |-> key, old_value |-> old_value, new_value |-> new_value,
     operation |-> operation]

FileChanges(namespace, file_path, added_keys, deleted_keys, modified_keys) ==
    [namespace |-> namespace, file_path |-> file_path, added_keys |-> added_keys,
     deleted_keys |-> deleted_keys, modified_keys |-> modified_keys]

\* the paths the flow writes and parses, as lists of their parts:
\* f"virtual:{ns}" and f"{namespace}/{lang_code}.json"
virtual_path(namespace) == <<"virtual:", namespace>>

lang_file_path(namespace, lang_code) == <<namespace, "/", lang_code, ".json">>

\* value[0] of a list value, the value itself otherwise
first_value(value) ==
    IF isinstance_list(value)
    THEN (IF Len(value.val) > 0 THEN Str(Head(value.val)) ELSE Str(<<>>))
    ELSE value

\* every key of source_dict as an added key
added_keys_of(source_dict, keys) ==
    [i \in 1..Len(keys) |->
        KeyChange(keys[i], None, first_value(source_dict.map[keys[i]]), "added")]

\* the lang directory of a namespace of the model holds a file
has_lang_files(namespace) == TRUE

check_missing_translation_files(files) ==
    Concat([n \in 1..Len(get_namespace_list) |->
        LET namespace == get_namespace_list[n]
            missing == SelectSeq(TARGET_LANGUAGES,
                           LAMBDA lang_code : ~translate_file_exists(files, namespace, lang_code))
        IN  IF has_lang_files(namespace)
            THEN [i \in 1..Len(missing) |-> <<namespace, missing[i]>>]
            ELSE <<>>])

create_virtual_changes_for_missing_files(missing_files) ==
    LET namespace_groups ==
            dedup([i \in 1..Len(missing_files) |-> missing_files[i][1]])
    IN  Concat([g \in 1..Len(namespace_groups) |->
            LET namespace == namespace_groups[g]
                lang_codes == SelectSeq(missing_files, LAMBDA m : m[1] = namespace)
                source_dict == get_merged_reference_translations(namespace)
            IN  IF source_dict.order = <<>> THEN <<>>
                ELSE [i \in 1..Len(lang_codes) |->
                        FileChanges(namespace,
                                    lang_file_path(namespace, lang_codes[i][2]),
                                    added_keys_of(source_dict, source_dict.order),
                                    <<>>, <<>>)]])

\* a plausible slip: files that exist are never looked into
create_virtual_changes_none(files) == <<>>

create_virtual_changes_for_missing_keys(files) ==
    Concat([n \in 1..Len(get_namespace_list) |->
        LET namespace == get_namespace_list[n]
            source_dict == get_merged_reference_translations(namespace)
            with_file == SelectSeq(TARGET_LANGUAGES,
                             LAMBDA lang_code : translate_file_exists(files, namespace, lang_code))
            missing_keys(lang_code) ==
                SelectSeq(source_dict.order,
                          LAMBDA k : k \notin Keys(
                              load_namespace_translations_from_translate(
                                  files, namespace, lang_code)))
            with_gap == SelectSeq(with_file, LAMBDA lang_code : missing_keys(lang_code) # <<>>)
        IN  IF source_dict.order = <<>> THEN <<>>
            ELSE [i \in 1..Len(with_gap) |->
                    FileChanges(namespace,
                                lang_file_path(namespace, with_gap[i]),
                                added_keys_of(source_dict, missing_keys(with_gap[i])),
                                <<>>, <<>>)]])

----------------------------------------------------------------------------
(* translation_flow.run_smart_translation and continue_full_translation, up  *)
(* to the requests                                                           *)

\* the literals of the flow: `len(keys_to_translate) < 10`, max_context=10 and
\* batch_size=40
CONTEXT_THRESHOLD == 10

FLOW_MAX_CONTEXT == 10

FLOW_BATCH_SIZE == 40

change_keys(changes) ==
    dedup([i \in 1..Len(changes) |-> changes[i].key])

\* the languages a change item is for: the language of the file for the item of
\* a missing file or of missing keys, every language otherwise
target_languages_of(file_path) ==
    IF "/" \in Elems(file_path) /\ file_path[Len(file_path)] = ".json"
    THEN LET target_lang_code == file_path[Len(file_path) - 1]
         IN  IF target_lang_code \in Elems(TARGET_LANGUAGES)
             THEN <<target_lang_code>> ELSE <<>>
    ELSE TARGET_LANGUAGES

\* {k: translated[k] for k in keys if k in translated}
restrict_to_keys_none(translated, keys) == translated

restrict_to_keys(translated, keys) ==
    [k \in Elems(keys) \cap Keys(translated) |-> translated[k]]

context_dict_for(source_dict, keys_to_translate) ==
    IF Len(keys_to_translate) < CONTEXT_THRESHOLD
    THEN get_context_for_keys(source_dict, keys_to_translate, FLOW_MAX_CONTEXT, FALSE)
    ELSE LET known == SelectSeq(keys_to_translate, LAMBDA k : k \in Keys(source_dict.map))
         IN  OrderedDict(known, [k \in Elems(known) |-> source_dict.map[k]])

\* the tasks of one change item (run_smart_translation)
smart_tasks_of(files, changes) ==
    LET source_dict == get_merged_reference_translations(changes.namespace)
        keys_to_translate == change_keys(changes.added_keys \o changes.modified_keys)
        target_languages == target_languages_of(changes.file_path)
    IN  IF source_dict.order = <<>> \/ keys_to_translate = <<>> THEN <<>>
        ELSE [i \in 1..Len(target_languages) |->
                [namespace |-> changes.namespace,
                 lang_code |-> target_languages[i],
                 context_dict |-> context_dict_for(source_dict, keys_to_translate),
                 keys_to_translate |-> keys_to_translate,
                 existing_translations |->
                     load_namespace_translations_from_translate(
                         files, changes.namespace, target_languages[i])]]

smart_tasks(files, changes_list) ==
    Concat([c \in 1..Len(changes_list) |-> smart_tasks_of(files, changes_list[c])])

needs_translation(files, force, namespace, lang_code, source_dict) ==
    LET existing_translations ==
            load_namespace_translations_from_translate(files, namespace, lang_code)
    IN  \/ force
        \/ Keys(existing_translations) = {}
        \/ Keys(source_dict.map) \ Keys(existing_translations) # {}

\* the tasks of one namespace (continue_full_translation)
full_tasks_of(files, force, namespace) ==
    LET source_dict == get_merged_reference_translations(namespace)
        needing == SelectSeq(TARGET_LANGUAGES,
                       LAMBDA lang_code :
                           needs_translation(files, force, namespace, lang_code, source_dict))
        existing_translate(lang_code) ==
            load_namespace_translations_from_translate(files, namespace, lang_code)
        keys_to_translate(lang_code) ==
            IF force THEN source_dict
            ELSE LET missing == SelectSeq(source_dict.order,
                                          LAMBDA k : k \notin Keys(existing_translate(lang_code)))
                 IN  OrderedDict(missing, [k \in Elems(missing) |-> source_dict.map[k]])
        with_keys == SelectSeq(needing, LAMBDA lang_code : keys_to_translate(lang_code).order # <<>>)
    IN  IF source_dict.order = <<>> THEN <<>>
        ELSE [i \in 1..Len(with_keys) |->
                [namespace |-> namespace,
                 lang_code |-> with_keys[i],
                 texts |-> keys_to_translate(with_keys[i]),
                 existing_translations |-> existing_translate(with_keys[i])]]

full_tasks(files, force, namespaces) ==
    Concat([n \in 1..Len(namespaces) |-> full_tasks_of(files, force, namespaces[n])])

\* request.<name> = value, for every name of attrs
set_attributes(request, attrs) ==
    [f \in DOMAIN request \cup DOMAIN attrs |->
        IF f \in DOMAIN attrs THEN attrs[f] ELSE request[f]]

smart_requests_of(task) ==
    LET prepared_context == prepare_texts_for_translation(task.context_dict)
        reqs == prepare_translation_requests(prepared_context, <<task.lang_code>>,
                                             FLOW_BATCH_SIZE, "")
    IN  [i \in 1..Len(reqs) |->
            set_attributes(reqs[i],
                [namespace |-> task.namespace,
                 keys_to_translate |-> task.keys_to_translate,
                 existing_translations |-> task.existing_translations])]

full_requests_of(task) ==
    LET prepared_texts == prepare_texts_for_translation(task.texts)
        reqs == prepare_translation_requests(prepared_texts, <<task.lang_code>>,
                                             FLOW_BATCH_SIZE, task.namespace)
    IN  [i \in 1..Len(reqs) |->
            set_attributes(reqs[i],
                [namespace |-> task.namespace,
                 existing_translations |-> task.existing_translations])]

----------------------------------------------------------------------------
(* The save loops and perform_cleanup_extra_keys *)

has_results(acc, namespace, lang_code) ==
    namespace \in DOMAIN acc /\ lang_code \in DOMAIN acc[namespace]

\* one turn of the save loop of run_smart_translation
smart_save(files, acc, task) ==
    IF has_results(acc, task.namespace, task.lang_code)
    THEN LET translated == acc[task.namespace][task.lang_code]
             target_translations == restrict_to_keys(translated, task.keys_to_translate)
             final == dict_update(task.existing_translations, target_translations)
         IN  save_namespace_translations(files, task.namespace, task.lang_code, final)
    ELSE files

full_save_merging(files, acc, task, force) ==
    IF has_results(acc, task.namespace, task.lang_code)
    THEN save_namespace_translations(
             files, task.namespace, task.lang_code,
             dict_update(task.existing_translations, acc[task.namespace][task.lang_code]))
    ELSE files

\* one turn of the save loop of continue_full_translation
full_save(files, acc, task, force) ==
    IF has_results(acc, task.namespace, task.lang_code)
    THEN LET translated_results == acc[task.namespace][task.lang_code]
             final_translations ==
                 IF force THEN translated_results
                 ELSE dict_update(task.existing_translations, translated_results)
         IN  save_namespace_translations(files, task.namespace, task.lang_code,
                                         final_translations)
    ELSE files

\* a plausible slip: every store that was checked is saved, stale keys or not
cleanup_writes_all(files) ==
    { f \in UNION { {n} \X DOMAIN files[n] : n \in DOMAIN files } :
        /\ f[1] \in Elems(get_namespace_list)
        /\ get_merged_reference_translations(f[1]).order # <<>>
        /\ f[2] \in Elems(TARGET_LANGUAGES)
        /\ Keys(load_namespace_translations_from_translate(files, f[1], f[2])) # {} }

\* the stores the pass saves: those of a namespace with a reference and of a
\* language of the catalogue that hold a key the reference does not have
cleanup_writes(files) ==
    { f \in UNION { {n} \X DOMAIN files[n] : n \in DOMAIN files } :
        LET source_dict == get_merged_reference_translations(f[1])
            existing_translations ==
                load_namespace_translations_from_translate(files, f[1], f[2])
            keys_to_remove == Keys(existing_translations) \ Keys(source_dict.map)
        IN  /\ f[1] \in Elems(get_namespace_list)
            /\ source_dict.order # <<>>
            /\ f[2] \in Elems(TARGET_LANGUAGES)
            /\ Keys(existing_translations) # {}
            /\ keys_to_remove # {} }

perform_cleanup_extra_keys(files) ==
    [namespace \in DOMAIN files |->
        [lang_code \in DOMAIN files[namespace] |->
            LET source_dict == get_merged_reference_translations(namespace)
                existing_translations ==
                    load_namespace_translations_from_translate(files, namespace, lang_code)
                keys_to_remove == Keys(existing_translations) \ Keys(source_dict.map)
            IN  IF <<namespace, lang_code>> \in cleanup_writes(files)
                THEN File([k \in Keys(existing_translations) \ keys_to_remove |->
                              existing_translations[k]])
                ELSE files[namespace][lang_code]]]

----------------------------------------------------------------------------
(* The references of the model and the payloads made of them *)

OLD == Str(<<"o">>)

\* a reference of two keys (the second with two source candidates) and one of a
\* single key
ReferenceTwo ==
    OrderedDict(<<"k1", "k2">>,
                [k \in {"k1", "k2"} |->
                    IF k = "k1" THEN Str(SRC_PLAIN) ELSE List(<<SRC_TWO, SRC_PLAIN>>)])

ReferenceOne == OrderedDict(<<"k3">>, [k \in {"k3"} |-> Str(SRC_PLAIN)])

\* the key lists a change item may name: the keys of a reference in any order
KeyLists(source_dict) ==
    LET keys == Keys(source_dict.map)
    IN  { l \in UNION { [1..n -> keys] : n \in 1..Cardinality(keys) } :
            \A i, j \in 1..Len(l) : l[i] = l[j] => i = j }

\* the payloads the flows make of the references of the model
FlowPayloads ==
    { prepare_texts_for_translation(source_dict).map :
        source_dict \in {ReferenceTwo, ReferenceOne} }
    \cup
    { prepare_texts_for_translation(
          context_dict_for(source_dict, keys_to_translate)).map :
        source_dict \in {ReferenceTwo}, keys_to_translate \in KeyLists(ReferenceTwo) }
    \cup
    { prepare_texts_for_translation(
          context_dict_for(source_dict, keys_to_translate)).map :
        source_dict \in {ReferenceOne}, keys_to_translate \in KeyLists(ReferenceOne) }

\* every payload a request of the model carries
AllPayloads ==
    {TextsPlain, TextsWithContext, EmptyDict, TextsMarkerOnly, TextsBatch1, TextsBatch2}
    \cup FlowPayloads

\* per payload, what an attempt can come to: the kind of the service's response
\* and what translate_batch makes of it
AttemptOutcomes ==
    [texts \in AllPayloads |->
        { [kind |-> ResponseKind(strip_core_keys_marker(texts), response),
           ret |-> translate_batch_response(texts, response)] :
             response \in Responses(strip_core_keys_marker(texts)) }]

\* the failures the program has counted in this run, on each channel
RECURSIVE SumOver(_, _)
SumOver(f, S) ==
    IF S = {} THEN 0
    ELSE LET x == CHOOSE y \in S : TRUE IN f[x] + SumOver(f, S \ {x})

\* the service's answer to the call of worker r, and what the worker does with it
Respond(r) ==
    /\ pc[r] = "call_api"
    /\ \E outcome \in AttemptOutcomes[requests[r].texts] :
          /\ outcome.kind \in service.kinds[r]
          /\ outcome.ret.raised /\ is_validation_error(outcome.ret.error) =>
                SumOver(validation_failure_count, Workers) < service.validation_faults
          /\ outcome.ret.raised /\ ~is_validation_error(outcome.ret.error) =>
                SumOver(api_failure_count, Workers) < service.api_faults
          /\ last_outcome' = [last_outcome EXCEPT ![r] = outcome.kind]
          /\ IF outcome.ret.raised THEN AfterRaise(r, outcome.ret.error)
                                   ELSE AfterReturn(r, outcome.ret.value)
    /\ UNCHANGED <<env_vars, call_vars, ph_vars, flow_vars, configured_mode, run_vars, total_attempts, temperature,
                   thinking_mode, original_mode, model>>

SingleRuns ==
    { <<TranslationRequest(1, t, "fr_fr", "ns1", 1, 1)>> :
        t \in {TextsPlain, TextsWithContext, EmptyDict, TextsMarkerOnly} }

\* two requests at once: the two batches of one work item, one payload for two
\* languages, and the payloads of two namespaces
ConcurrentRuns ==
    { <<TranslationRequest(1, TextsBatch1, "fr_fr", "ns1", 1, 2),
        TranslationRequest(2, TextsBatch2, "fr_fr", "ns1", 2, 2)>>,
      <<TranslationRequest(1, TextsPlain, "fr_fr", "ns1", 1, 1),
        TranslationRequest(2, TextsPlain, "de_de", "ns1", 1, 1)>>,
      <<TranslationRequest(1, TextsPlain, "fr_fr", "ns1", 1, 1),
        TranslationRequest(2, TextsWithContext, "fr_fr", "ns2", 1, 1)>> }

\* the state before execute_requests_concurrently is called with `reqs`
ExecStart(reqs, srv) ==
    /\ configured_mode \in BOOLEAN
    /\ non_thinking_mode = configured_mode
    /\ requests = reqs
    /\ service = srv
    /\ results_by_namespace_and_language = EmptyDict
    /\ collected = {}
    /\ pc = [r \in DOMAIN reqs |-> "loop"]
    /\ api_failure_count = [r \in DOMAIN reqs |-> 0]
    /\ validation_failure_count = [r \in DOMAIN reqs |-> 0]
    /\ total_attempts = [r \in DOMAIN reqs |-> 0]
    /\ temperature = [r \in DOMAIN reqs |-> 0]
    /\ thinking_mode = [r \in DOMAIN reqs |-> configured_mode]
    /\ original_mode = [r \in DOMAIN reqs |-> configured_mode]
    /\ model = [r \in DOMAIN reqs |-> "unset"]
    /\ wait_time = [r \in DOMAIN reqs |-> 0]
    /\ last_outcome = [r \in DOMAIN reqs |-> "none"]
    /\ result = [r \in DOMAIN reqs |-> EmptyDict]

\* no run at all
ExecIdle ==
    /\ configured_mode = FALSE
    /\ non_thinking_mode = FALSE
    /\ requests = <<>>
    /\ service = [kinds |-> <<>>, api_faults |-> 0, validation_faults |-> 0]
    /\ results_by_namespace_and_language = EmptyDict
    /\ collected = {}
    /\ pc = <<>>
    /\ api_failure_count = <<>>
    /\ validation_failure_count = <<>>
    /\ total_attempts = <<>>
    /\ temperature = <<>>
    /\ thinking_mode = <<>>
    /\ original_mode = <<>>
    /\ model = <<>>
    /\ wait_time = <<>>
    /\ last_outcome = <<>>
    /\ result = <<>>

\* no run of the flows
\* no call of a single function is under way
CallIdle ==
    /\ call = [fn |-> "none"]
    /\ returned = [done |-> FALSE, value |-> <<>>]

\* main() is not running
FlowIdle ==
    /\ api_key = "sk"
    /\ exit_code = <<>>
    /\ git_diff = "none"
    /\ force_translate = FALSE
    /\ TARGET_LANGUAGES = <<>>
    /\ reference = EmptyDict
    /\ store = EmptyDict
    /\ phase = "none"
    /\ runs = 0
    /\ file_changes = <<>>
    /\ all_translation_tasks = <<>>
    /\ saved = 0

PhIdle ==
    /\ original_text = <<>>
    /\ translated_text = <<>>
    /\ accepted = "pending"

\* what the service does to a lone request: anything, or one kind of answer only
ServiceProfiles ==
    {ResponseKinds} \cup { {k} : k \in ResponseKinds \ {"same_keys"} }

\* one request, any number of failures
SingleInit ==
    /\ PhIdle
    /\ FlowIdle
    /\ CallIdle
    /\ \E reqs \in SingleRuns, kinds \in ServiceProfiles :
          ExecStart(reqs, [kinds |-> <<kinds>>,
                           api_faults |-> MAX_INDIVIDUAL_RETRIES,
                           validation_faults |-> MAX_INDIVIDUAL_RETRIES])

\* several requests at once; the service fails a bounded number of times in the run
Init ==
    /\ PhIdle
    /\ FlowIdle
    /\ CallIdle
    /\ \E reqs \in ConcurrentRuns :
          ExecStart(reqs, [kinds |-> [r \in DOMAIN reqs |-> ResponseKinds],
                           api_faults |-> MaxApiFaults,
                           validation_faults |-> MaxValidationFaults])

Next ==
    \/ \E r \in Workers : BeginAttempt(r)
    \/ \E r \in Workers : SaveMode(r)
    \/ \E r \in Workers : SetMode(r)
    \/ \E r \in Workers : EnterTranslate(r)
    \/ \E r \in Workers : Respond(r)
    \/ \E r \in Workers : Collect(r)

Spec == Init /\ [][Next]_vars

\* the worker thread and the collecting loop of a run keep running
SingleSpec == SingleInit /\ [][Next]_vars /\ WF_vars(Next)

----------------------------------------------------------------------------
(* git_changes.get_file_key_changes: the key changes of one language file    *)
(* between HEAD~1 and the working tree.  A snapshot is [kind, data]: the     *)
(* file is absent, its text is no JSON, it is JSON but no object (null, [],  *)
(* 0 and "" are "empty_other", the rest "not_a_mapping"), or it is a         *)
(* mapping.  The loops of the function run over Python sets, whose order of  *)
(* iteration is not fixed: the orders are arguments.                         *)

Snapshot(kind, data) == [kind |-> kind, data |-> data]

\* json.loads of `git show HEAD~1:path`, {} when git or the parser fails
old_data_of(snapshot) ==
    IF snapshot.kind = "mapping" THEN snapshot.data ELSE EmptyDict

\* a plausible slip: the parse error is not caught
old_data_raises_on_parse_error(snapshot) ==
    snapshot.kind \in {"not_a_mapping", "empty_other", "unparsable"}

\* old_data.keys() fails: the text was JSON but no object
old_data_raises(snapshot) == snapshot.kind \in {"not_a_mapping", "empty_other"}

\* load_json_file(file_path) or {} when the file exists
new_data_of(snapshot) ==
    IF snapshot.kind = "mapping" THEN snapshot.data ELSE EmptyDict

new_data_raises(snapshot) == snapshot.kind = "not_a_mapping"

\* every one-to-one list of the elements of a set
Orders(S) ==
    { f \in [1..Cardinality(S) -> S] : \A i, j \in 1..Cardinality(S) : f[i] = f[j] => i = j }

\* the deleted entries whose old value is the string value v
deleted_with_value(deleted_keys, v) ==
    { i \in 1..Len(deleted_keys) :
        isinstance_str(deleted_keys[i].old_value) /\ deleted_keys[i].old_value = v }

\* a plausible slip: the count of the value among the deletions is not looked at
is_unique_match_any(a, deleted_keys) ==
    /\ isinstance_str(a.new_value)
    /\ deleted_with_value(deleted_keys, a.new_value) # {}

\* isinstance(a.new_value, str) and a.new_value in deleted_index and
\* deleted_value_counts.get(a.new_value, 0) == 1
is_unique_match(a, deleted_keys) ==
    /\ isinstance_str(a.new_value)
    /\ Cardinality(deleted_with_value(deleted_keys, a.new_value)) = 1

\* deleted_index[v]: the last deleted entry with the value
deleted_index(deleted_keys, v) ==
    LET hits == deleted_with_value(deleted_keys, v)
    IN  deleted_keys[CHOOSE i \in hits : \A j \in hits : j <= i]

\* a plausible slip: a deleted entry may be paired again
already_used_never(d, used_deleted) == FALSE

\* d.key in used_deleted
already_used(d, used_deleted) == d.key \in used_deleted

\* the loop over added_keys; acc is [modified, used_deleted, added_remaining]
RECURSIVE pair_renames(_, _, _)
pair_renames(added_keys, deleted_keys, acc) ==
    IF added_keys = <<>> THEN acc
    ELSE LET a == Head(added_keys)
             d == deleted_index(deleted_keys, a.new_value)
         IN  IF is_unique_match(a, deleted_keys) /\ ~already_used(d, acc.used_deleted)
             THEN pair_renames(Tail(added_keys), deleted_keys,
                      [modified |-> Append(acc.modified,
                                           KeyChange(a.key, d.old_value, a.new_value,
                                                     "modified")),
                       used_deleted |-> acc.used_deleted \cup {d.key},
                       added_remaining |-> acc.added_remaining])
             ELSE pair_renames(Tail(added_keys), deleted_keys,
                      [modified |-> acc.modified,
                       used_deleted |-> acc.used_deleted,
                       added_remaining |-> Append(acc.added_remaining, a)])

\* a plausible slip: no rename is looked for
detect_renames_none(added_keys, deleted_keys, modified_keys) ==
    [modified |-> modified_keys, used_deleted |-> {}, added_remaining |-> added_keys]

\* the rename detection: the loop, from its initial lists
detect_renames(added_keys, deleted_keys, modified_keys) ==
    pair_renames(added_keys, deleted_keys,
                 [modified |-> modified_keys, used_deleted |-> {},
                  added_remaining |-> <<>>])

\* a plausible slip: every shared key counts as modified
values_differ_always(old_value, new_value) == TRUE

\* old_data.get(key) != new_data.get(key)
values_differ(old_value, new_value) == old_value # new_value

\* the function returned None (it caught an exception)
NoChanges == [ok |-> FALSE, added |-> <<>>, deleted |-> <<>>, modified |-> <<>>]

Changes(added, deleted, modified) ==
    [ok |-> TRUE, added |-> added, deleted |-> deleted, modified |-> modified]

get_file_key_changes(old, new, added_order, deleted_order, shared_order) ==
    IF old_data_raises(old) \/ new_data_raises(new) THEN NoChanges
    ELSE LET old_data == old_data_of(old)
             new_data == new_data_of(new)
             added_keys ==
                 [i \in 1..Len(added_order) |->
                     KeyChange(added_order[i], None, new_data[added_order[i]], "added")]
             deleted_keys ==
                 [i \in 1..Len(deleted_order) |->
                     KeyChange(deleted_order[i], old_data[deleted_order[i]], None, "deleted")]
             changed == SelectSeq(shared_order,
                                  LAMBDA k : values_differ(old_data[k], new_data[k]))
             modified_keys ==
                 [i \in 1..Len(changed) |->
                     KeyChange(changed[i], old_data[changed[i]], new_data[changed[i]],
                               "modified")]
         IN  IF added_keys # <<>> /\ deleted_keys # <<>>
             THEN LET paired == detect_renames(added_keys, deleted_keys, modified_keys)
                  IN  Changes(paired.added_remaining,
                              SelectSeq(deleted_keys,
                                        LAMBDA d : d.key \notin paired.used_deleted),
                              paired.modified)
             ELSE Changes(added_keys, deleted_keys, modified_keys)

----------------------------------------------------------------------------
(* The runs of main(): the incremental flow (run_smart_translation) and the  *)
(* forced one (run_full_translation), one run after the other on the same    *)
(* files                                                                     *)

\* a store that holds an earlier translation for each key of keys
StoreOf(keys) == File([k \in keys |-> OLD])

\* the files at the start: the catalogue, what the assets hold and what
\* translate/ holds.  One namespace of two keys and one language; a namespace
\* whose reference has become empty; one namespace and two languages; two
\* namespaces and one language.
FileScenarios ==
    { [catalogue |-> <<"fr_fr">>,
       reference |-> [n \in {"ns1"} |-> ReferenceTwo],
       store |-> [n \in {"ns1"} |-> [l \in {"fr_fr", "de_de"} |->
                     IF l = "fr_fr" THEN fr ELSE NoFile]]] :
        fr \in {NoFile, StoreOf({}), StoreOf({"k1"}), StoreOf({"k1", "k2"}),
                StoreOf({"k1", "obsolete"})} }
    \cup
    { [catalogue |-> <<"fr_fr">>,
       reference |-> [n \in {"ns1"} |-> EmptyOrderedDict],
       store |-> [n \in {"ns1"} |-> [l \in {"fr_fr", "de_de"} |->
                     IF l = "fr_fr" THEN fr ELSE NoFile]]] :
        fr \in {NoFile, StoreOf({"obsolete"})} }
    \cup
    { [catalogue |-> <<"fr_fr", "de_de">>,
       reference |-> [n \in {"ns1"} |-> ReferenceOne],
       store |-> [n \in {"ns1"} |-> [l \in {"fr_fr", "de_de"} |->
                     IF l = "fr_fr" THEN fr ELSE de]]] :
        fr \in {NoFile, StoreOf({"k3", "obsolete"})},
        de \in {NoFile, StoreOf({})} }
    \cup
    { [catalogue |-> <<"fr_fr">>,
       reference |-> [n \in {"ns1", "ns2"} |-> ReferenceOne],
       store |-> [n \in {"ns1", "ns2"} |-> [l \in {"fr_fr", "de_de"} |->
                     IF l = "de_de" THEN NoFile
                     ELSE IF n = "ns1" THEN StoreOf({"obsolete"}) ELSE fr]]] :
        fr \in {NoFile, StoreOf({"k3"})} }

\* get_git_changes, the changes of one language file of namespace: nothing
\* when get_file_key_changes returned None, else one item "virtual:{ns}" that
\* holds the added and the modified keys, when there are any
aggregate_key_changes(namespace, changes) ==
    IF ~changes.ok THEN <<>>
    ELSE IF changes.added # <<>> \/ changes.modified # <<>>
         THEN << FileChanges(namespace, virtual_path(namespace),
                             changes.added, <<>>, changes.modified) >>
         ELSE <<>>

\* the language file of namespace as it is now, and as it was when its key k
\* had the name "obsolete"
file_snapshot(namespace) ==
    Snapshot("mapping", [k \in Keys(reference[namespace].map) |->
                            first_value(reference[namespace].map[k])])

file_snapshot_before_rename(namespace, k) ==
    LET new_data == file_snapshot(namespace).data
    IN  Snapshot("mapping",
                 [x \in (Keys(new_data) \ {k}) \cup {"obsolete"} |->
                     IF x = "obsolete" THEN new_data[k] ELSE new_data[x]])

\* what get_git_changes may return: nothing, or one item of ns1 with the added
\* key k2 or the modified key k1 of its reference, or what the change detector
\* makes of the rename of "obsolete" to k1
GitChanges ==
    {<<>>}
    \cup
    { << FileChanges("ns1", virtual_path("ns1"),
                     added_keys_of(reference["ns1"], <<k>>), <<>>, <<>>) >> :
        k \in Keys(reference["ns1"].map) \cap {"k2"} }
    \cup
    { << FileChanges("ns1", virtual_path("ns1"), <<>>, <<>>,
                     << KeyChange(k, OLD, first_value(reference["ns1"].map[k]),
                                  "modified") >>) >> :
        k \in Keys(reference["ns1"].map) \cap {"k1"} }
    \cup
    { aggregate_key_changes("ns1",
          get_file_key_changes(file_snapshot_before_rename("ns1", k),
                               file_snapshot("ns1"),
                               <<k>>, <<"obsolete">>, shared_order)) :
        k \in Keys(reference["ns1"].map) \cap {"k1"},
        shared_order \in Orders(Keys(reference["ns1"].map) \ {"k1"}) }

\* what the service does to the requests of a run: it answers each with valid
\* translations, or fails one of them on every attempt (no reply, a reply with
\* other keys, or a reply with the keys sent and a value the validation
\* rejects); after MaxFailingRuns runs it has recovered
FlowServices(n) ==
    { [kinds |-> kinds,
       api_faults |-> n * MAX_INDIVIDUAL_RETRIES,
       validation_faults |-> n * MAX_INDIVIDUAL_RETRIES] :
        kinds \in { f \in [1..n -> {{"valid"}, {"transport"}, {"key_mismatch"},
                                     {"same_keys"}}] :
                      Cardinality({ r \in 1..n : f[r] # {"valid"} })
                          <= (IF runs <= MaxFailingRuns THEN 1 ELSE 0) } }

\* execute_requests_concurrently is entered with reqs
\* `git diff --name-only HEAD~1 HEAD` and what the files it names give: the
\* command ends with status 0 ("ok"), with another status ("nonzero"), or
\* running it or reading the changes raises ("raises"); changes is what the
\* changed language files hold
GitDiffs ==
    { [status |-> status, changes |-> changes] :
        status \in {"ok", "nonzero", "raises"}, changes \in GitChanges }

\* a plausible slip: the status of the command is not looked at
get_git_changes_unchecked(diff) == diff.changes

\* get_git_changes: [] when the command fails or anything raises
get_git_changes(diff) ==
    IF diff.status = "ok" THEN diff.changes ELSE <<>>

ExecBegin(reqs, srv) ==
    /\ requests' = reqs
    /\ service' = srv
    /\ results_by_namespace_and_language' = EmptyDict
    /\ collected' = {}
    /\ pc' = [r \in DOMAIN reqs |-> "loop"]
    /\ api_failure_count' = [r \in DOMAIN reqs |-> 0]
    /\ validation_failure_count' = [r \in DOMAIN reqs |-> 0]
    /\ total_attempts' = [r \in DOMAIN reqs |-> 0]
    /\ temperature' = [r \in DOMAIN reqs |-> 0]
    /\ thinking_mode' = [r \in DOMAIN reqs |-> configured_mode]
    /\ original_mode' = [r \in DOMAIN reqs |-> configured_mode]
    /\ model' = [r \in DOMAIN reqs |-> "unset"]
    /\ wait_time' = [r \in DOMAIN reqs |-> 0]
    /\ last_outcome' = [r \in DOMAIN reqs |-> "none"]
    /\ result' = [r \in DOMAIN reqs |-> EmptyDict]

\* a plausible slip: the credential is never looked at
credential_missing_never(key) == FALSE

\* `not api_key`: the variable is unset or empty
credential_missing(key) == key = ""

\* run_smart_translation up to the list of tasks; with nothing to do it goes
\* straight to the cleanup
SmartScan ==
    /\ phase = "start"
    /\ ~credential_missing(api_key)
    /\ ~force_translate
    /\ \E diff \in GitDiffs :
          LET changes ==
                  get_git_changes(diff)
                  \o create_virtual_changes_for_missing_files(
                         check_missing_translation_files(store))
                  \o create_virtual_changes_for_missing_keys(store)
              tasks == smart_tasks(store, changes)
          IN  /\ git_diff' = diff.status
              /\ file_changes' = changes
              /\ all_translation_tasks' = tasks
              /\ phase' = IF tasks = <<>> THEN "cleanup" ELSE "prepare"
    /\ saved' = 0
    /\ UNCHANGED <<api_key, exit_code, call_vars, ph_vars, exec_vars, file_vars, runs>>

\* the requests of every task, and the call of execute_requests_concurrently
SmartPrepare ==
    /\ phase = "prepare"
    /\ ~force_translate
    /\ LET all_requests ==
               Concat([t \in 1..Len(all_translation_tasks) |->
                          smart_requests_of(all_translation_tasks[t])])
       IN  \E srv \in FlowServices(Len(all_requests)) : ExecBegin(all_requests, srv)
    /\ phase' = "execute"
    /\ UNCHANGED <<env_vars, call_vars, ph_vars, translator_vars, file_vars, runs, file_changes,
                   all_translation_tasks, saved>>

\* one turn of the save loop, once execute_requests_concurrently has returned
SmartSave ==
    /\ phase = "execute"
    /\ ~force_translate
    /\ collected = Workers
    /\ saved < Len(all_translation_tasks)
    /\ store' = smart_save(store, results_by_namespace_and_language,
                           all_translation_tasks[saved + 1])
    /\ saved' = saved + 1
    /\ phase' = IF saved + 1 = Len(all_translation_tasks) THEN "cleanup" ELSE "execute"
    /\ UNCHANGED <<env_vars, call_vars, ph_vars, exec_vars, force_translate, TARGET_LANGUAGES, reference, runs, file_changes,
                   all_translation_tasks>>

\* continue_full_translation up to the list of tasks; with no task it returns
FullScan ==
    /\ phase = "start"
    /\ ~credential_missing(api_key)
    /\ force_translate
    /\ LET tasks == full_tasks(store, force_translate, get_namespace_list)
       IN  /\ all_translation_tasks' = tasks
           /\ phase' = IF tasks = <<>> THEN "done" ELSE "prepare"
    /\ saved' = 0
    /\ UNCHANGED <<env_vars, call_vars, ph_vars, exec_vars, file_vars, runs, file_changes>>

FullPrepare ==
    /\ phase = "prepare"
    /\ force_translate
    /\ LET all_requests ==
               Concat([t \in 1..Len(all_translation_tasks) |->
                          full_requests_of(all_translation_tasks[t])])
       IN  \E srv \in FlowServices(Len(all_requests)) : ExecBegin(all_requests, srv)
    /\ phase' = "execute"
    /\ UNCHANGED <<env_vars, call_vars, ph_vars, translator_vars, file_vars, runs, file_changes,
                   all_translation_tasks, saved>>

FullSave ==
    /\ phase = "execute"
    /\ force_translate
    /\ collected = Workers
    /\ saved < Len(all_translation_tasks)
    /\ store' = full_save(store, results_by_namespace_and_language,
                          all_translation_tasks[saved + 1], force_translate)
    /\ saved' = saved + 1
    /\ phase' = IF saved + 1 = Len(all_translation_tasks) THEN "cleanup" ELSE "execute"
    /\ UNCHANGED <<env_vars, call_vars, ph_vars, exec_vars, force_translate, TARGET_LANGUAGES, reference, runs, file_changes,
                   all_translation_tasks>>

\* perform_cleanup_extra_keys, the last step of both flows
Cleanup ==
    /\ phase = "cleanup"
    /\ store' = perform_cleanup_extra_keys(store)
    /\ phase' = "done"
    /\ UNCHANGED <<env_vars, call_vars, ph_vars, exec_vars, force_translate, TARGET_LANGUAGES, reference, runs, file_changes,
                   all_translation_tasks, saved>>

\* main() is started again: a new translator on the files the last run left
NextRun ==
    /\ phase = "done"
    /\ runs < MaxRuns
    /\ runs' = runs + 1
    /\ phase' = "start"
    /\ non_thinking_mode' = configured_mode
    /\ git_diff' = "none"
    /\ UNCHANGED <<api_key, exit_code, call_vars, ph_vars, configured_mode, run_vars, worker_vars,
                   file_vars, file_changes, all_translation_tasks, saved>>

\* main() gives up at once: the credential is missing
Abort ==
    /\ phase = "start"
    /\ credential_missing(api_key)
    /\ exit_code' = <<1>>
    /\ phase' = "aborted"
    /\ UNCHANGED <<ph_vars, exec_vars, file_vars, runs, file_changes,
                   all_translation_tasks, saved, api_key, git_diff, call_vars>>

FlowInit ==
    /\ PhIdle
    /\ ExecIdle
    /\ CallIdle
    /\ api_key \in {"", "sk"}
    /\ exit_code = <<>>
    /\ git_diff = "none"
    /\ force_translate \in BOOLEAN
    /\ \E files \in FileScenarios :
          /\ TARGET_LANGUAGES = files.catalogue
          /\ reference = files.reference
          /\ store = files.store
    /\ phase = "start"
    /\ runs = 1
    /\ file_changes = <<>>
    /\ all_translation_tasks = <<>>
    /\ saved = 0

FlowNext ==
    \/ \E r \in Workers : BeginAttempt(r)
    \/ \E r \in Workers : SaveMode(r)
    \/ \E r \in Workers : SetMode(r)
    \/ \E r \in Workers : EnterTranslate(r)
    \/ \E r \in Workers : Respond(r)
    \/ \E r \in Workers : Collect(r)
    \/ SmartScan
    \/ SmartPrepare
    \/ SmartSave
    \/ FullScan
    \/ FullPrepare
    \/ FullSave
    \/ Cleanup
    \/ NextRun
    \/ Abort

\* what a run does once it has its list of tasks
RunSteps ==
    \/ \E r \in Workers : BeginAttempt(r)
    \/ \E r \in Workers : SaveMode(r)
    \/ \E r \in Workers : SetMode(r)
    \/ \E r \in Workers : EnterTranslate(r)
    \/ \E r \in Workers : Respond(r)
    \/ \E r \in Workers : Collect(r)
    \/ SmartPrepare
    \/ SmartSave
    \/ FullPrepare
    \/ FullSave
    \/ Cleanup

\* the threads of a run and the flow itself keep running; nothing makes main()
\* start, the first time or again
FlowSpec == FlowInit /\ [][FlowNext]_vars /\ WF_vars(RunSteps)

----------------------------------------------------------------------------
(* The placeholder check on its own: every pair of bounded texts *)

Pieces ==
    { <<"%", "s">>, <<"%", "1", "$", "s">>, <<"%", "2", "$", "s">>,
      <<"a">>, <<"%">>, <<"1">>, <<"$">>, <<"s">> }

RECURSIVE TextsOf(_)
TextsOf(n) ==
    IF n = 0 THEN { <<>> }
    ELSE LET shorter == TextsOf(n - 1) IN
         shorter \cup { t \o p : t \in shorter, p \in Pieces }

BoundedTexts == TextsOf(MaxPieces)

PhInit ==
    /\ original_text \in BoundedTexts
    /\ translated_text \in BoundedTexts
    /\ accepted = "pending"
    /\ ExecIdle
    /\ FlowIdle
    /\ CallIdle

ValidatePlaceholders ==
    /\ accepted = "pending"
    /\ accepted' = IF validate_placeholder_consistency(original_text, translated_text)
                   THEN "yes" ELSE "no"
    /\ UNCHANGED <<env_vars, call_vars, original_text, translated_text>>
    /\ UNCHANGED <<env_vars, call_vars, exec_vars, flow_vars>>

PhNext == ValidatePlaceholders

PlaceholderSpec == PhInit /\ [][PhNext]_vars

----------------------------------------------------------------------------
(* One call of get_file_key_changes, on every pair of bounded snapshots *)

\* the keys and the values of the snapshots of the model: two strings and a
\* list that holds the first of them
MaxKeys == 3

KeyNames == <<"a", "b", "c", "d", "e", "f", "g", "h", "i", "j">>

DetectorKeys == { KeyNames[i] : i \in 1..MaxKeys }

HELLO == Str(<<"h">>)

WORLD == Str(<<"w">>)

HELLO_LIST == List(<<<<"h">>>>)

Mappings ==
    UNION { [S -> {HELLO, WORLD, HELLO_LIST}] : S \in SUBSET DetectorKeys }

Snapshots ==
    { Snapshot("mapping", m) : m \in Mappings }
    \cup { Snapshot(kind, EmptyDict) :
             kind \in {"absent", "unparsable", "empty_other", "not_a_mapping"} }

GetFileKeyChanges ==
    /\ call.fn = "get_file_key_changes"
    /\ ~returned.done
    /\ LET old_keys == Keys(old_data_of(call.old))
           new_keys == Keys(new_data_of(call.new))
       IN  \E added_order \in Orders(new_keys \ old_keys),
              deleted_order \in Orders(old_keys \ new_keys),
              shared_order \in Orders(old_keys \cap new_keys) :
               returned' = [done |-> TRUE,
                            value |-> get_file_key_changes(call.old, call.new, added_order,
                                                           deleted_order, shared_order)]
    /\ UNCHANGED <<ph_vars, exec_vars, flow_vars, env_vars, call>>

DetectorInit ==
    /\ PhIdle
    /\ ExecIdle
    /\ FlowIdle
    /\ \E old \in Snapshots, new \in Snapshots :
          call = [fn |-> "get_file_key_changes", old |-> old, new |-> new]
    /\ returned = [done |-> FALSE, value |-> <<>>]

DetectorNext == GetFileKeyChanges

DetectorSpec == DetectorInit /\ [][DetectorNext]_vars

----------------------------------------------------------------------------
(* The context window and the batches as functions of their arguments: one   *)
(* call of file_ops.get_context_for_keys, of translator.                     *)
(* split_texts_with_context_guarantee or of translator.                      *)
(* prepare_translation_requests, with arguments of every shape up to the     *)
(* bounds                                                                    *)

MaxItems == 7

MaxBatchSize == 3

MaxContext == 4

\* a source of n keys, in the order of KeyNames
source_of(n) ==
    OrderedDict([i \in 1..n |-> KeyNames[i]],
                [k \in { KeyNames[i] : i \in 1..n } |-> IF k = "a" THEN WORLD ELSE HELLO])

Sources == { source_of(n) : n \in 0..MaxItems }

ItemKeys == { KeyNames[i] : i \in 1..MaxItems }

\* the lists of target keys: one key, or two keys (in any order, also twice the
\* same)
TargetLists ==
    { <<k>> : k \in ItemKeys } \cup (ItemKeys \X ItemKeys)

\* a payload as the flow hands it to the translator: the keys as they are, or
\* what get_context_for_keys made of them
Payloads ==
    Sources
    \cup { get_context_for_keys(source_dict, <<k>>, max_context, force_context) :
             source_dict \in Sources, k \in ItemKeys,
             max_context \in 0..MaxContext, force_context \in BOOLEAN }

LanguageLists == { <<"fr_fr">>, <<"fr_fr", "de_de">> }

GetContextForKeys ==
    /\ call.fn = "get_context_for_keys"
    /\ ~returned.done
    /\ returned' = [done |-> TRUE,
                    value |-> get_context_for_keys(call.source_dict, call.target_keys,
                                                   call.max_context, call.force_context)]
    /\ UNCHANGED <<ph_vars, exec_vars, flow_vars, env_vars, call>>

SplitTextsWithContextGuarantee ==
    /\ call.fn = "split_texts_with_context_guarantee"
    /\ ~returned.done
    /\ returned' = [done |-> TRUE,
                    value |-> split_texts_with_context_guarantee(
                                  call.texts, call.batch_size, call.context_size)]
    /\ UNCHANGED <<ph_vars, exec_vars, flow_vars, env_vars, call>>

PrepareTranslationRequests ==
    /\ call.fn = "prepare_translation_requests"
    /\ ~returned.done
    /\ returned' = [done |-> TRUE,
                    value |-> prepare_translation_requests(
                                  call.all_texts, call.target_languages, call.batch_size,
                                  call.namespace)]
    /\ UNCHANGED <<ph_vars, exec_vars, flow_vars, env_vars, call>>

PlannerCalls ==
    { [fn |-> "get_context_for_keys", source_dict |-> source_dict,
       target_keys |-> target_keys, max_context |-> max_context,
       force_context |-> force_context] :
        source_dict \in Sources, target_keys \in TargetLists,
        max_context \in 0..MaxContext, force_context \in BOOLEAN }
    \cup { [fn |-> "split_texts_with_context_guarantee", texts |-> texts,
            batch_size |-> batch_size, context_size |-> context_size] :
             texts \in Payloads, batch_size \in 1..MaxBatchSize,
             context_size \in 0..MaxContext }
    \cup { [fn |-> "prepare_translation_requests", all_texts |-> all_texts,
            target_languages |-> target_languages, batch_size |-> batch_size,
            namespace |-> "ns1"] :
             all_texts \in Payloads, target_languages \in LanguageLists,
             batch_size \in 1..MaxBatchSize }

PlannerInit ==
    /\ PhIdle
    /\ ExecIdle
    /\ FlowIdle
    /\ call \in PlannerCalls
    /\ returned = [done |-> FALSE, value |-> <<>>]

PlannerNext ==
    \/ GetContextForKeys
    \/ SplitTextsWithContextGuarantee
    \/ PrepareTranslationRequests

PlannerSpec == PlannerInit /\ [][PlannerNext]_vars

----------------------------------------------------------------------------
(* The claims *)

\* worker r has something to send, so each of its attempts calls the service
Sends(r) == Keys(strip_core_keys_marker(requests[r].texts)) # {}

Done(r) == pc[r] = "done"

\* C1: a request whose every attempt gets a transport error makes exactly
\* MAX_INDIVIDUAL_RETRIES attempts, ends with api_failure_count at the maximum,
\* never counts a validation failure and returns an empty result
C1_TransportErrorsExhaustApiChannel ==
    \A r \in Workers :
        (Sends(r) /\ service.kinds[r] = {"transport"}) =>
            /\ validation_failure_count[r] = 0
            /\ Done(r) => /\ total_attempts[r] = MAX_INDIVIDUAL_RETRIES
                          /\ api_failure_count[r] = MAX_INDIVIDUAL_RETRIES
                          /\ result[r] = EmptyDict

C1_Witness ==
    \E r \in Workers :
        /\ Sends(r) /\ service.kinds[r] = {"transport"}
        /\ Done(r) /\ api_failure_count[r] = MAX_INDIVIDUAL_RETRIES

\* C2: a request whose every attempt gets a well-formed reply with another key
\* set ends after exactly MAX_INDIVIDUAL_RETRIES attempts with
\* validation_failure_count at the maximum, api_failure_count 0 and an empty result
C2_KeyMismatchExhaustsValidationChannel ==
    \A r \in Workers :
        (Sends(r) /\ service.kinds[r] = {"key_mismatch"}) =>
            /\ api_failure_count[r] = 0
            /\ Done(r) => /\ total_attempts[r] = MAX_INDIVIDUAL_RETRIES
                          /\ validation_failure_count[r] = MAX_INDIVIDUAL_RETRIES
                          /\ result[r] = EmptyDict

C2_Witness ==
    \E r \in Workers :
        /\ Sends(r) /\ service.kinds[r] = {"key_mismatch"}
        /\ Done(r) /\ validation_failure_count[r] = MAX_INDIVIDUAL_RETRIES

\* worker r takes the step that handles the service's response
Responds(r) == pc[r] = "call_api" /\ pc'[r] # "call_api"

\* C3: an attempt whose reply text is no JSON counts as a validation failure:
\* validation_failure_count goes up by one, api_failure_count stays, and the wait
\* is the shorter one
C3_UnparsableReplyIsValidationFailure ==
    [][\A r \in Workers :
          (Responds(r) /\ last_outcome'[r] = "unparsable") =>
              /\ validation_failure_count'[r] = validation_failure_count[r] + 1
              /\ api_failure_count'[r] = api_failure_count[r]
              /\ wait_time'[r] = VALIDATION_WAIT]_vars

\* C4: every execution of a request ends; it ends with a mapping at the first
\* attempt that yields one, or empty-handed as soon as a counter reaches
\* MAX_INDIVIDUAL_RETRIES, and never makes more than
\* 2 * MAX_INDIVIDUAL_RETRIES - 1 attempts
C4_Bounded ==
    \A r \in Workers :
        /\ total_attempts[r] <= 2 * MAX_INDIVIDUAL_RETRIES - 1
        /\ ~Done(r) =>
              /\ api_failure_count[r] < MAX_INDIVIDUAL_RETRIES
              /\ validation_failure_count[r] < MAX_INDIVIDUAL_RETRIES
              /\ result[r] = EmptyDict
        /\ (Done(r) /\ result[r] = EmptyDict) =>
              /\ \/ api_failure_count[r] = MAX_INDIVIDUAL_RETRIES
                 \/ validation_failure_count[r] = MAX_INDIVIDUAL_RETRIES
              /\ total_attempts[r] = api_failure_count[r] + validation_failure_count[r]
        /\ (Done(r) /\ result[r] # EmptyDict) =>
              total_attempts[r] = api_failure_count[r] + validation_failure_count[r] + 1

\* C4: every execution of a request terminates, within the bounds of C4_Bounded
\* (at most 2 * MAX_INDIVIDUAL_RETRIES - 1 attempts, a mapping at the first
\* attempt that yields one, empty-handed once a counter reaches the maximum)
C4_Terminates ==
    /\ []C4_Bounded
    /\ <>(\A r \in Workers : Done(r))

\* the longest execution: both counters one short of the maximum, then the end
C4_Witness ==
    \E r \in Workers :
        Done(r) /\ total_attempts[r] = 2 * MAX_INDIVIDUAL_RETRIES - 1

\* a text of the form %s or %N$s, N one or more digits
IsToken(t) ==
    /\ Len(t) >= 2
    /\ t[1] = "%"
    /\ t[Len(t)] = "s"
    /\ \/ Len(t) = 2
       \/ /\ Len(t) >= 4
          /\ t[Len(t) - 1] = "$"
          /\ \A j \in 2..(Len(t) - 2) : IsDigit(t[j])

\* the places of text where a token stands
TokenPlaces(text) ==
    { p \in (1..Len(text)) \X (1..Len(text)) :
        p[1] <= p[2] /\ IsToken(SubSeq(text, p[1], p[2])) }

TokensIn(text) == { SubSeq(text, p[1], p[2]) : p \in TokenPlaces(text) }

TokenCount(text, t) ==
    Cardinality({ p \in TokenPlaces(text) : SubSeq(text, p[1], p[2]) = t })

SameTokenMultiset(a, b) ==
    \A t \in TokensIn(a) \cup TokensIn(b) : TokenCount(a, t) = TokenCount(b, t)

\* C6: the pair is accepted exactly when the translation holds the same
\* multiset of %s / %N$s tokens as the source, whatever their order
C6_PlaceholderMultiset ==
    accepted # "pending" =>
        (accepted = "yes" <=> SameTokenMultiset(original_text, translated_text))

\* accepted although the two tokens come in the other order
C6_Witness ==
    /\ accepted = "yes"
    /\ original_text = <<"%", "1", "$", "s", "%", "2", "$", "s">>
    /\ translated_text = <<"%", "2", "$", "s", "%", "1", "$", "s">>


\* the text of a source value: the value itself, or the first candidate of a list
SourceText(value) == Head(value.val)

\* C5: a non-empty result has the keys of the payload without the marker, only
\* texts as values, and for every key the placeholder tokens of the source value
\* (of its first candidate when it is a list)
C5_ResultPassedValidation ==
    \A r \in Workers :
        (Done(r) /\ result[r] # EmptyDict) =>
            /\ Keys(result[r]) = Keys(requests[r].texts) \ {"__core_keys__"}
            /\ \A k \in Keys(result[r]) :
                  /\ result[r][k].tag = "str"
                  /\ SameTokenMultiset(SourceText(requests[r].texts[k]),
                                       result[r][k].val[1])

\* a result for the payload with a list-valued source and the marker
C5_Witness ==
    \E r \in Workers :
        /\ Done(r) /\ result[r] # EmptyDict
        /\ requests[r].texts = TextsWithContext

\* the variant and the temperature the claims call for after k validation failures
ExpectedMode(k) == IF k >= 6 THEN ~configured_mode ELSE configured_mode

ExpectedTemperature(k) ==
    IF k = 0 THEN DEFAULT_TEMPERATURE
    ELSE IF k <= 5 THEN TEMPERATURE_ADJUSTMENTS[k]
    ELSE TEMPERATURE_ADJUSTMENTS[((k - 6) % 5) + 1]

\* C7: whatever the other requests do, the variant an attempt sends is the one
\* the request's own validation_failure_count and the configured mode call for
C7_VariantIsRequestsOwn ==
    \A r \in Workers :
        pc[r] = "call_api" =>
            model[r] = ModelFor(ExpectedMode(validation_failure_count[r]))

\* C8: in a run of one request, the attempt after k validation failures uses the
\* default temperature and the configured variant for k = 0, the k-th entry of
\* the non-increasing schedule and the configured variant for k in 1..5, and the
\* flipped variant with the schedule restarted for k >= 6
C8_EscalationSchedule ==
    /\ \A i \in 1..(Len(TEMPERATURE_ADJUSTMENTS) - 1) :
          TEMPERATURE_ADJUSTMENTS[i] >= TEMPERATURE_ADJUSTMENTS[i + 1]
    /\ Len(requests) = 1 =>
          \A r \in Workers :
              pc[r] = "call_api" =>
                  /\ temperature[r] = ExpectedTemperature(validation_failure_count[r])
                  /\ model[r] = ModelFor(ExpectedMode(validation_failure_count[r]))

\* an attempt with the flipped variant, and one of the first five retries
C8_Witness ==
    \E r \in Workers :
        /\ Len(requests) = 1
        /\ pc[r] = "call_api"
        /\ validation_failure_count[r] = 7
        /\ api_failure_count[r] = 3
        /\ model[r] = ModelFor(~configured_mode)

\* C9: the attempt that follows an API failure uses the temperature and the
\* variant of the attempt that failed
C9_ApiFailureKeepsParameters ==
    [][\A r \in Workers :
          (last_outcome[r] = "transport" /\ pc[r] # "done") =>
              /\ temperature'[r] = temperature[r]
              /\ model'[r] = model[r]]_vars

\* the successful requests of (namespace, target_lang) that have been collected
Merged(namespace, target_lang) ==
    { r \in collected : /\ requests[r].namespace = namespace
                        /\ requests[r].target_lang = target_lang }

\* C10: once every future is collected, each bucket holds exactly the keys of
\* the results of the requests of its namespace and language
C10_BucketIsUnionOfResults ==
    collected = Workers =>
        \A r \in Workers :
            LET namespace == requests[r].namespace
                target_lang == requests[r].target_lang
            IN  Keys(Bucket(results_by_namespace_and_language, namespace, target_lang))
                  = UNION { Keys(result[q]) : q \in Merged(namespace, target_lang) }

\* two batches of one work item, both successful, both merged
C10_Witness ==
    /\ Len(requests) = 2
    /\ collected = Workers
    /\ requests[1].texts = TextsBatch1 /\ requests[2].texts = TextsBatch2
    /\ result[1] # EmptyDict /\ result[2] # EmptyDict

\* the requests of the run that came back with a mapping, and the one that gave up
Succeeded(r) == Done(r) /\ Keys(result[r]) # {}

SoftFailed(r) ==
    /\ Done(r)
    /\ Keys(result[r]) = {}
    /\ \/ api_failure_count[r] = MAX_INDIVIDUAL_RETRIES
       \/ validation_failure_count[r] = MAX_INDIVIDUAL_RETRIES

\* once every future is collected, the accumulated result holds every key of
\* every mapping that came back, with a value one of those mappings gave it
AccumulatedHoldsResults ==
    collected = Workers =>
        \A r \in Workers :
            LET bucket == Bucket(results_by_namespace_and_language,
                                 requests[r].namespace, requests[r].target_lang)
            IN  \A k \in Keys(result[r]) :
                    /\ k \in Keys(bucket)
                    /\ \E q \in Merged(requests[r].namespace, requests[r].target_lang) :
                          k \in Keys(result[q]) /\ bucket[k] = result[q][k]

\* the save loop has gone through every task before the cleanup
SavesBeforeCleanup ==
    phase \in {"cleanup", "done"} => saved = Len(all_translation_tasks)

\* C11: a request that gives up neither blocks nor fails the others: whatever
\* the requests of a run come to, execute_requests_concurrently returns with the
\* full result of every request that succeeded, and the run goes through its
\* save loop and its cleanup to its end
C11_FailureLeavesSiblingsAlone ==
    /\ [](AccumulatedHoldsResults /\ SavesBeforeCleanup)
    /\ (phase = "execute") ~> (phase = "done" /\ collected = Workers)

\* a finished run in which one request gave up and another one's result was
\* accumulated and saved
C11_Witness ==
    /\ phase = "done"
    /\ \E r, q \in Workers :
          /\ SoftFailed(r)
          /\ Succeeded(q)
          /\ \A k \in Keys(result[q]) :
                Bucket(results_by_namespace_and_language,
                       requests[q].namespace, requests[q].target_lang)[k] = result[q][k]
          /\ store[requests[q].namespace][requests[q].target_lang].exists
          /\ Keys(store[requests[q].namespace][requests[q].target_lang].data)
                \cap Keys(result[q]) # {}

\* the keys the marker of a request names
CoreKeySet(r) ==
    LET marker == requests[r].texts["__core_keys__"].val
    IN  { marker[i][1] : i \in 1..Len(marker) }

\* C12: for a payload split into batches, the translation the merge keeps for a
\* key is the one of the batch that holds the key as a core key, in whatever
\* order the batches complete
C12_CoreTranslationIsKept ==
    collected = Workers =>
        \A r \in Workers :
            (requests[r].total_batches > 1 /\ Succeeded(r)) =>
                \A k \in CoreKeySet(r) :
                    Bucket(results_by_namespace_and_language,
                           requests[r].namespace, requests[r].target_lang)[k]
                        = result[r][k]

\* the merge phase of a run is over: every task has had its turn of the save loop
MergeDone == phase = "cleanup" /\ saved = Len(all_translation_tasks)

\* the accumulated result of the task's namespace and language, {} without one
TaskResults(task) ==
    IF has_results(results_by_namespace_and_language, task.namespace, task.lang_code)
    THEN results_by_namespace_and_language[task.namespace][task.lang_code]
    ELSE EmptyDict

\* C13: in an incremental run, once the merge phase is over, every requested key
\* of every task that has a translation in the accumulated result is stored with
\* that translation, also when several tasks are for one namespace and language
C13_LaterSaveKeepsEarlier ==
    (MergeDone /\ ~force_translate) =>
        \A t \in 1..Len(all_translation_tasks) :
            LET task == all_translation_tasks[t]
                file == store[task.namespace][task.lang_code]
            IN  \A k \in Elems(task.keys_to_translate) \cap Keys(TaskResults(task)) :
                    /\ file.exists
                    /\ k \in Keys(file.data)
                    /\ file.data[k] = TaskResults(task)[k]

\* until the first save, what a task holds as existing translations is what
\* the store holds for its namespace and language
SnapshotIsStore ==
    (phase \in {"prepare", "execute"} /\ saved = 0) =>
        \A t \in 1..Len(all_translation_tasks) :
            LET task == all_translation_tasks[t]
            IN  task.existing_translations =
                    load_namespace_translations_from_translate(
                        store, task.namespace, task.lang_code)

\* what one turn of the incremental save loop does to the store
SaveWritesRequestedKeysOnly ==
    (~force_translate /\ phase = "execute" /\ saved' = saved + 1) =>
        LET task == all_translation_tasks[saved + 1]
            existing == task.existing_translations
            requested == Elems(task.keys_to_translate)
            after == store'[task.namespace][task.lang_code]
        IN  /\ \A n \in DOMAIN store : \A l \in DOMAIN store[n] :
                  <<n, l>> # <<task.namespace, task.lang_code>>
                      => store'[n][l] = store[n][l]
            /\ IF has_results(results_by_namespace_and_language,
                              task.namespace, task.lang_code)
               THEN /\ after.exists
                    /\ Keys(after.data) \subseteq Keys(existing) \cup requested
                    /\ \A k \in Keys(existing) \ requested :
                          k \in Keys(after.data) /\ after.data[k] = existing[k]
                    /\ \A k \in requested \cap Keys(TaskResults(task)) :
                          k \in Keys(after.data) /\ after.data[k] = TaskResults(task)[k]
               ELSE after = store[task.namespace][task.lang_code]

\* C14: in incremental mode the save of a task writes its requested keys only:
\* the accumulated result is restricted to them and merged over the translations
\* that were there before, so a key that was there and was not requested keeps
\* its value, and no key outside those two sets appears
C14_SaveIsRestrictedToRequestedKeys ==
    []SnapshotIsStore /\ [][SaveWritesRequestedKeysOnly]_vars

\* a task for k2 has been saved: the reply also translated the context key k1,
\* which the store keeps with its old value, beside a key nobody asked for
C14_Witness ==
    /\ ~force_translate
    /\ MergeDone
    /\ Len(all_translation_tasks) = 1
    /\ LET task == all_translation_tasks[1]
           file == store[task.namespace][task.lang_code]
       IN  /\ \E k \in Keys(TaskResults(task)) \ Elems(task.keys_to_translate) :
                 /\ k \in Keys(file.data)
                 /\ file.data[k] = OLD
                 /\ TaskResults(task)[k] # OLD
           /\ \E k \in Elems(task.keys_to_translate) :
                 k \in Keys(file.data) /\ file.data[k] = TaskResults(task)[k]
           /\ "obsolete" \in Keys(file.data)

\* the requests of a forced run name every key of every reference for every
\* language of the catalogue
EveryKeyIsSent ==
    (force_translate /\ phase = "execute") =>
        \A n \in DOMAIN reference : \A l \in Elems(TARGET_LANGUAGES) :
            \A k \in Elems(reference[n].order) :
                \E r \in Workers :
                    /\ requests[r].namespace = n
                    /\ requests[r].target_lang = l
                    /\ k \in Keys(requests[r].texts)

\* one turn of the forced save loop leaves the file of the task equal to the
\* accumulated result
ForcedSaveOverwrites ==
    (force_translate /\ phase = "execute" /\ saved' = saved + 1) =>
        LET task == all_translation_tasks[saved + 1]
        IN  /\ has_results(results_by_namespace_and_language,
                           task.namespace, task.lang_code)
            /\ store'[task.namespace][task.lang_code] = File(TaskResults(task))

\* after the forced merge every file of a task equals the accumulated result
ForcedStoreIsResult ==
    (force_translate /\ MergeDone) =>
        \A t \in 1..Len(all_translation_tasks) :
            LET task == all_translation_tasks[t]
            IN  store[task.namespace][task.lang_code] = File(TaskResults(task))

\* C15: with force_translate every key of every reference is sent for every
\* language of the catalogue, whatever is translated already, and after the
\* merge the file of a namespace and language holds exactly the accumulated
\* result: what was there and is not in the result is gone
C15_ForceSendsAllAndOverwrites ==
    [](EveryKeyIsSent /\ ForcedStoreIsResult) /\ [][ForcedSaveOverwrites]_vars

\* a forced run has merged: a file that was complete before the run has been
\* translated again, and a key it held beside the reference's is gone
C15_Witness ==
    /\ force_translate
    /\ MergeDone
    /\ \E t \in 1..Len(all_translation_tasks) :
          LET task == all_translation_tasks[t]
              file == store[task.namespace][task.lang_code]
          IN  /\ Elems(reference[task.namespace].order)
                    \subseteq Keys(task.existing_translations)
              /\ "obsolete" \in Keys(task.existing_translations)
              /\ Keys(file.data) = Elems(reference[task.namespace].order)
              /\ \A k \in Keys(file.data) : file.data[k] # OLD

\* C16: a request that gives up loses nothing: after the merge, every
\* translation its namespace and language held before the run for one of its
\* keys is still in the file with the same value, with and without
\* force_translate
C16_SoftFailureLosesNothing ==
    MergeDone =>
        \A r \in Workers :
            SoftFailed(r) =>
                LET before == requests[r].existing_translations
                    file == store[requests[r].namespace][requests[r].target_lang]
                IN  \A k \in Keys(strip_core_keys_marker(requests[r].texts))
                               \cap Keys(before) :
                        /\ file.exists
                        /\ k \in Keys(file.data)
                        /\ file.data[k] = before[k]

\* the core keys of a request that gave up for which the run has no translation
\* from any other request either
UntranslatedKeys(r) ==
    Elems(requests[r].keys_to_translate)
        \ Keys(Bucket(results_by_namespace_and_language,
                      requests[r].namespace, requests[r].target_lang))

\* a request of an incremental run gave up: after the merge of that run those
\* keys have no new translation
FailedKeysStayUntranslated ==
    (~force_translate /\ MergeDone) =>
        \A r \in Workers :
            SoftFailed(r) =>
                LET before == requests[r].existing_translations
                    file == store[requests[r].namespace][requests[r].target_lang]
                IN  \A k \in UntranslatedKeys(r) :
                        IF k \in Keys(before)
                        THEN k \in Keys(file.data) /\ file.data[k] = before[k]
                        ELSE k \notin Keys(file.data)

\* the scan of a later run is over and the requests of the run before are
\* still at hand
NextScanDone ==
    /\ runs > 1
    /\ \/ phase = "prepare"
       \/ phase = "cleanup" /\ all_translation_tasks = <<>>

\* the tasks of the new scan name those keys
FailedKeysAreDetectedAgain ==
    (~force_translate /\ NextScanDone) =>
        \A r \in Workers :
            SoftFailed(r) =>
                \A k \in UntranslatedKeys(r) :
                    \E t \in 1..Len(all_translation_tasks) :
                        /\ all_translation_tasks[t].namespace = requests[r].namespace
                        /\ all_translation_tasks[t].lang_code = requests[r].target_lang
                        /\ k \in Elems(all_translation_tasks[t].keys_to_translate)

\* C17: the core keys of a request that gave up, added or modified, get no new
\* translation in that run, and the next incremental run finds them again as
\* keys to translate
C17_FailedKeysAreRetried ==
    FailedKeysStayUntranslated /\ FailedKeysAreDetectedAgain

\* the file of a namespace and language holds keys of the reference only
NoExtraKeys(files, namespace, lang_code) ==
    Keys(files[namespace][lang_code].data)
        \subseteq Keys(get_merged_reference_translations(namespace).map)

\* a step of perform_cleanup_extra_keys leaves no file with a key that its
\* reference lacks
CleanupRemovesExtraKeys ==
    (phase = "cleanup" /\ phase' = "done") =>
        \A n \in Elems(get_namespace_list) : \A l \in Elems(TARGET_LANGUAGES) :
            NoExtraKeys(store', n, l)

\* C18: after a cleanup pass no file of a namespace and a language of the
\* catalogue holds a key that the merged reference of the namespace lacks,
\* whatever the reference holds, an empty one included, and whether or not the
\* run translated anything
C18_CleanupLeavesReferenceKeysOnly == [][CleanupRemovesExtraKeys]_vars

\* a run is over in which no request gave up
RunSucceeded ==
    /\ phase = "done"
    /\ \/ all_translation_tasks = <<>>
       \/ \A r \in Workers : Succeeded(r)

\* C19: after a run in which every request succeeded, the file of every
\* namespace and every language of the catalogue holds exactly the keys of the
\* merged reference of the namespace
C19_StoreKeysEqualReferenceKeys ==
    RunSucceeded =>
        \A n \in Elems(get_namespace_list) : \A l \in Elems(TARGET_LANGUAGES) :
            Keys(load_namespace_translations_from_translate(store, n, l))
                = Keys(get_merged_reference_translations(n).map)

\* the keys of the reference that the file of a namespace and language lacks,
\* in the order of the reference
MissingKeys(n, l) ==
    SelectSeq(get_merged_reference_translations(n).order,
              LAMBDA k : k \notin Keys(load_namespace_translations_from_translate(store, n, l)))

\* the scan of an incremental run is over and nothing has been saved yet
ScanDone ==
    /\ ~force_translate
    /\ \/ phase = "prepare"
       \/ phase = "cleanup" /\ all_translation_tasks = <<>>

\* the change items of the scan that are for the file of n and l
ItemsFor(n, l) ==
    { c \in 1..Len(file_changes) : file_changes[c].file_path = lang_file_path(n, l) }

\* after the scan a file with a gap has one item of its own, of added keys only,
\* that names exactly the missing keys, and a task for them; a file without a
\* gap has no such item
GapsBecomeAddedItems ==
    ScanDone =>
        \A n \in Elems(get_namespace_list) : \A l \in Elems(TARGET_LANGUAGES) :
            IF MissingKeys(n, l) = <<>>
            THEN ItemsFor(n, l) = {}
            ELSE /\ Cardinality(ItemsFor(n, l)) = 1
                 /\ \A c \in ItemsFor(n, l) :
                       /\ file_changes[c].namespace = n
                       /\ file_changes[c].modified_keys = <<>>
                       /\ file_changes[c].deleted_keys = <<>>
                       /\ change_keys(file_changes[c].added_keys) = MissingKeys(n, l)
                       /\ \A i \in 1..Len(file_changes[c].added_keys) :
                             /\ file_changes[c].added_keys[i].operation = "added"
                             /\ file_changes[c].added_keys[i].old_value = None
                 /\ \E t \in 1..Len(all_translation_tasks) :
                       /\ all_translation_tasks[t].namespace = n
                       /\ all_translation_tasks[t].lang_code = l
                       /\ all_translation_tasks[t].keys_to_translate = MissingKeys(n, l)

\* every file of the catalogue holds every key of its reference
Complete ==
    \A n \in Elems(get_namespace_list) : \A l \in Elems(TARGET_LANGUAGES) :
        MissingKeys(n, l) = <<>>

\* C20: every gap, a missing file or a missing key, makes the scan of an
\* incremental run produce an added item for exactly the missing keys, and a
\* run in which the service answers every request with a valid reply ends with
\* every key of every reference in the file of every language of the catalogue
C20_GapsAreEventuallyFilled ==
    /\ []GapsBecomeAddedItems
    /\ (ScanDone /\ runs > MaxFailingRuns /\ ~Complete) ~> (phase = "done" /\ Complete)

\* a second run has filled the gap of a file that the first run left: its task
\* was for the missing key only
C20_Witness ==
    /\ ~force_translate
    /\ runs > MaxFailingRuns
    /\ phase = "done"
    /\ Complete
    /\ \E t \in 1..Len(all_translation_tasks) : \E c \in 1..Len(file_changes) :
          LET task == all_translation_tasks[t]
          IN  /\ file_changes[c].file_path = lang_file_path(task.namespace, task.lang_code)
              /\ Keys(task.existing_translations) # {}
              /\ task.keys_to_translate =
                     SelectSeq(reference[task.namespace].order,
                               LAMBDA k : k \notin Keys(task.existing_translations))
              /\ Len(task.keys_to_translate) < Len(reference[task.namespace].order)

\* the items of a scan that came from the revision diff
GitPart(changes) == SelectSeq(changes, LAMBDA c : c.file_path[1] = "virtual:")

\* the scan of a further incremental run, started after a run in which no
\* request gave up, on sources that are as they were: HEAD is the same revision
\* (the diff is the one of the run before) or a later one that touches no source
\* (the diff is empty)
RescanOfUnchangedSources ==
    /\ ~force_translate
    /\ runs > 1
    /\ phase = "start"
    /\ phase' # "start"
    /\ \/ all_translation_tasks = <<>>
       \/ \A r \in Workers : Succeeded(r)
    /\ GitPart(file_changes') \in {GitPart(file_changes), <<>>}

\* such a scan finds nothing, and the cleanup that follows writes nothing
SecondRunIsIdle ==
    /\ RescanOfUnchangedSources =>
          /\ file_changes' = <<>>
          /\ all_translation_tasks' = <<>>
          /\ phase' = "cleanup"
    /\ (~force_translate /\ runs > 1 /\ phase = "cleanup" /\ all_translation_tasks = <<>>)
          => store' = store

\* C21: an incremental run that follows a successful run with no change of the
\* sources in between finds no diff and no missing key, sends no request and
\* rewrites no file, in its merge or in its cleanup
C21_SecondRunWritesNothing == [][SecondRunIsIdle]_vars

\* the call of get_file_key_changes has returned its three lists, for two
\* snapshots that are mappings
DetectorDone ==
    /\ call.fn = "get_file_key_changes"
    /\ returned.done
    /\ returned.value.ok

\* the keys of the entries of a list of changes
ChangeKeySet(changes) == { changes[i].key : i \in 1..Len(changes) }

\* kd was deleted with the string value v, no other deleted key had v, and ka
\* is the one added key with v
UniqueRename(kd, ka) ==
    LET old_data == call.old.data
        new_data == call.new.data
        v == old_data[kd]
    IN  /\ kd \in Keys(old_data) \ Keys(new_data)
        /\ ka \in Keys(new_data) \ Keys(old_data)
        /\ isinstance_str(v)
        /\ new_data[ka] = v
        /\ \A k \in Keys(old_data) \ Keys(new_data) : old_data[k] = v => k = kd
        /\ \A k \in Keys(new_data) \ Keys(old_data) : new_data[k] = v => k = ka

\* the entries of the result that record the rename of kd to ka
RenameEntries(kd, ka) ==
    { i \in 1..Len(returned.value.modified) :
        returned.value.modified[i] =
            KeyChange(ka, call.old.data[kd], call.old.data[kd], "modified") }

\* C22: a key deleted with a string value that no other deleted key has, and
\* one key added with that value, come out of get_file_key_changes as one
\* modified entry (the added key, old and new value the value), and neither key
\* is in the added or the deleted list
C22_UniqueRenameIsOneModifiedEntry ==
    DetectorDone =>
        \A kd, ka \in Keys(call.old.data) \cup Keys(call.new.data) :
            UniqueRename(kd, ka) =>
                /\ Cardinality(RenameEntries(kd, ka)) = 1
                /\ Cardinality({ i \in 1..Len(returned.value.modified) :
                                   returned.value.modified[i].key \in {ka, kd} }) = 1
                /\ {ka, kd} \cap ChangeKeySet(returned.value.added) = {}
                /\ {ka, kd} \cap ChangeKeySet(returned.value.deleted) = {}

\* the function has returned for a rename beside the deletion of another key
C22_Witness ==
    /\ DetectorDone
    /\ \E kd, ka, other \in Keys(call.old.data) \cup Keys(call.new.data) :
          /\ UniqueRename(kd, ka)
          /\ other \in ChangeKeySet(returned.value.deleted)
          /\ RenameEntries(kd, ka) # {}

\* C23: when two or more deleted keys have the same value, get_file_key_changes
\* infers no rename for it: every added key with the value stays added and
\* every deleted key with the value stays deleted
C23_AmbiguousValueIsNotARename ==
    DetectorDone =>
        LET old_data == call.old.data
            new_data == call.new.data
            deleted == Keys(old_data) \ Keys(new_data)
            added == Keys(new_data) \ Keys(old_data)
        IN  \A k1, k2 \in deleted :
                (k1 # k2 /\ old_data[k1] = old_data[k2]) =>
                    /\ \A kd \in deleted :
                          old_data[kd] = old_data[k1] =>
                              /\ kd \in ChangeKeySet(returned.value.deleted)
                              /\ kd \notin ChangeKeySet(returned.value.modified)
                    /\ \A ka \in added :
                          new_data[ka] = old_data[k1] =>
                              /\ ka \in ChangeKeySet(returned.value.added)
                              /\ ka \notin ChangeKeySet(returned.value.modified)

\* two keys were deleted with one string value and a key was added with it
C23_Witness ==
    /\ DetectorDone
    /\ \E k1, k2, ka \in DetectorKeys :
          /\ k1 # k2
          /\ {k1, k2} \subseteq Keys(call.old.data) \ Keys(call.new.data)
          /\ ka \in Keys(call.new.data) \ Keys(call.old.data)
          /\ call.old.data[k1] = HELLO
          /\ call.old.data[k2] = HELLO
          /\ call.new.data[ka] = HELLO
          /\ ChangeKeySet(returned.value.added) = {ka}
          /\ ChangeKeySet(returned.value.deleted) = {k1, k2}
          /\ returned.value.modified = <<>>

\* every entry of the three lists of the result
AllChanges ==
    { returned.value.added[i] : i \in 1..Len(returned.value.added) }
    \cup { returned.value.deleted[i] : i \in 1..Len(returned.value.deleted) }
    \cup { returned.value.modified[i] : i \in 1..Len(returned.value.modified) }

\* the entry records a rename: its key is new, and a key that is gone had its value
FromRename(c) ==
    /\ c.key \in Keys(call.new.data) \ Keys(call.old.data)
    /\ \E kd \in Keys(call.old.data) \ Keys(call.new.data) :
          call.old.data[kd] = c.old_value

WellFormed(c) ==
    CASE c.operation = "added" -> c.old_value = None /\ c.new_value # None
      [] c.operation = "deleted" -> c.new_value = None /\ c.old_value # None
      [] c.operation = "modified" ->
            /\ c.old_value # None
            /\ c.new_value # None
            /\ c.old_value # c.new_value \/ FromRename(c)
      [] OTHER -> FALSE

\* C24: every KeyChange of get_file_key_changes is well formed: an added one
\* has no old value and has a new one, a deleted one has no new value and has
\* an old one, a modified one has both, and they differ unless the entry
\* records a rename; each entry is in the list of its operation, and a key
\* that both snapshots hold with the same value has no entry
C24_KeyChangesAreWellFormed ==
    DetectorDone =>
        /\ \A c \in AllChanges : WellFormed(c)
        /\ \A i \in 1..Len(returned.value.added) :
              returned.value.added[i].operation = "added"
        /\ \A i \in 1..Len(returned.value.deleted) :
              returned.value.deleted[i].operation = "deleted"
        /\ \A i \in 1..Len(returned.value.modified) :
              returned.value.modified[i].operation = "modified"
        /\ \A k \in Keys(call.old.data) \cap Keys(call.new.data) :
              call.old.data[k] = call.new.data[k]
                  => \A c \in AllChanges : c.key # k

\* a result with an entry of each operation beside a key that did not change
C24_Witness ==
    /\ DetectorDone
    /\ returned.value.added # <<>>
    /\ returned.value.deleted # <<>>
    /\ \E i \in 1..Len(returned.value.modified) :
          returned.value.modified[i].old_value # returned.value.modified[i].new_value

\* C30: a snapshot that is not JSON counts as an empty mapping and the
\* detection ends without an error: with such an old snapshot every key of the
\* new one is added and nothing is deleted or modified, with such a new
\* snapshot every key of the old one is deleted
C30_UnparsableSnapshotIsEmpty ==
    (call.fn = "get_file_key_changes" /\ returned.done) =>
        /\ (call.old.kind = "unparsable" /\ call.new.kind \in {"mapping", "unparsable"}) =>
              /\ returned.value.ok
              /\ ChangeKeySet(returned.value.added) = Keys(call.new.data)
              /\ Len(returned.value.added) = Cardinality(Keys(call.new.data))
              /\ \A i \in 1..Len(returned.value.added) :
                    returned.value.added[i] =
                        KeyChange(returned.value.added[i].key, None,
                                  call.new.data[returned.value.added[i].key], "added")
              /\ returned.value.deleted = <<>>
              /\ returned.value.modified = <<>>
        /\ (call.new.kind = "unparsable" /\ call.old.kind \in {"mapping", "unparsable"}) =>
              /\ returned.value.ok
              /\ ChangeKeySet(returned.value.deleted) = Keys(call.old.data)
              /\ returned.value.added = <<>>
              /\ returned.value.modified = <<>>

\* the old snapshot was not JSON and the new one holds keys: all were added
C30_Witness ==
    /\ call.fn = "get_file_key_changes"
    /\ returned.done
    /\ returned.value.ok
    /\ call.old.kind = "unparsable"
    /\ Cardinality(Keys(call.new.data)) > 1
    /\ ChangeKeySet(returned.value.added) = Keys(call.new.data)

----------------------------------------------------------------------------
(* The context window of one target key *)

PlannerDone(fn) == call.fn = fn /\ returned.done

\* a call for one target key of a source that is larger than the budget, not forced
WindowCase ==
    /\ PlannerDone("get_context_for_keys")
    /\ ~call.force_context
    /\ Len(call.target_keys) = 1
    /\ call.target_keys[1] \in Elems(call.source_dict.order)
    /\ Len(call.source_dict.order) > call.max_context

\* C25: for a reference of n > budget ordered keys and one target key at
\* position i (from 0), get_context_for_keys returns exactly the keys at the
\* positions max(0, i - budget/2) .. min(n - 1, i + budget/2), in the order of
\* the reference and with the values of the reference, followed by the marker
\* that names the target key
C25_WindowIsTargetWithHalfBudgetEachSide ==
    WindowCase =>
        LET source_keys == call.source_dict.order
            n == Len(source_keys)
            half == call.max_context \div 2
            i == (CHOOSE p \in 1..n : source_keys[p] = call.target_keys[1]) - 1
            first == IF i - half < 0 THEN 0 ELSE i - half
            last == IF i + half > n - 1 THEN n - 1 ELSE i + half
            window == [p \in 1..(last - first + 1) |-> source_keys[first + p]]
        IN  /\ returned.value.order = Append(window, "__core_keys__")
            /\ \A p \in 1..Len(window) :
                   returned.value.map[window[p]] = call.source_dict.map[window[p]]
            /\ returned.value.map["__core_keys__"] = List(<< <<call.target_keys[1]>> >>)

\* the fourth of seven keys with a budget of four: two keys on each side
C25_Witness ==
    /\ WindowCase
    /\ Len(call.source_dict.order) = 7
    /\ call.max_context = 4
    /\ call.target_keys = <<"d">>
    /\ returned.value.order = <<"b", "c", "d", "e", "f", "__core_keys__">>

----------------------------------------------------------------------------
(* The batches of a payload that is split *)

\* a call that splits: more items than the batch size
SplitCase ==
    /\ PlannerDone("split_texts_with_context_guarantee")
    /\ Len(call.texts.order) > call.batch_size

\* the keys that the marker of a batch lists
MarkedKeys(batch) ==
    LET listed == batch.map["__core_keys__"].val
    IN  { listed[p][1] : p \in 1..Len(listed) }

\* the keys of a batch that are neither its marker nor listed in it
NonCoreKeys(batch) == (Keys(batch.map) \ {"__core_keys__"}) \ MarkedKeys(batch)

\* the chunk of batch b: the items at the positions ChunkFirst(b)..ChunkLast(b)
ChunkFirst(b) == (b - 1) * call.batch_size + 1

ChunkLast(b) ==
    IF b * call.batch_size > Len(call.texts.order) THEN Len(call.texts.order)
    ELSE b * call.batch_size

\* the keys of the k items before and of the k items after the chunk of batch b,
\* the entry '__core_keys__' of a payload that carries one left out
ItemsBefore(b, k) ==
    { call.texts.order[p] : p \in (ChunkFirst(b) - k)..(ChunkFirst(b) - 1) \cap
                                  1..Len(call.texts.order) } \ {"__core_keys__"}

ItemsAfter(b, k) ==
    { call.texts.order[p] : p \in (ChunkLast(b) + 1)..(ChunkLast(b) + k) \cap
                                  1..Len(call.texts.order) } \ {"__core_keys__"}

ExpectedContext(b) ==
    IF b = 1 THEN ItemsAfter(b, call.context_size)
    ELSE IF ChunkLast(b) = Len(call.texts.order) THEN ItemsBefore(b, call.context_size)
    ELSE ItemsBefore(b, call.context_size \div 2)
         \cup ItemsAfter(b, call.context_size \div 2)

\* C26: when split_texts_with_context_guarantee splits a mapping larger than
\* the batch size, the non-core keys of a batch are exactly: for the first
\* chunk the next context_size items and nothing before it, for the last chunk
\* the previous context_size items and nothing after it, for an interior chunk
\* the context_size/2 items before and the context_size/2 items after it, all
\* clipped at the ends of the mapping and with the values of the mapping
C26_ContextFollowsChunkPosition ==
    SplitCase =>
        \A b \in 1..Len(returned.value) :
            /\ NonCoreKeys(returned.value[b]) = ExpectedContext(b)
            /\ \A k \in NonCoreKeys(returned.value[b]) :
                   returned.value[b].map[k] = call.texts.map[k]

\* seven keys two at a time with four of context: a first, two interior and a
\* last batch, the context of the first and of the last on one side only
C26_Witness ==
    /\ SplitCase
    /\ call.texts = source_of(7)
    /\ call.batch_size = 2
    /\ call.context_size = 4
    /\ Len(returned.value) = 4
    /\ NonCoreKeys(returned.value[1]) = {"c", "d", "e", "f"}
    /\ NonCoreKeys(returned.value[2]) = {"a", "b", "e", "f"}
    /\ NonCoreKeys(returned.value[4]) = {"c", "d", "e", "f"}

\* the keys of the chunk of batch b
ChunkKeys(b) == { call.texts.order[p] : p \in ChunkFirst(b)..ChunkLast(b) }

\* C27: when split_texts_with_context_guarantee splits a mapping, the markers
\* of the batches partition the key set of the input into consecutive chunks
\* in input order: the marker of batch b lists the keys of the b-th run of
\* batch_size items and no other key, every chunk has between 1 and batch_size
\* keys, the chunks are pairwise disjoint and their union is the key set
C27_MarkersPartitionTheInput ==
    SplitCase =>
        LET batches == returned.value
        IN  /\ Len(batches) >= 2
            /\ \A b \in 1..Len(batches) :
                   /\ MarkedKeys(batches[b]) = ChunkKeys(b)
                   /\ Cardinality(MarkedKeys(batches[b])) \in 1..call.batch_size
                   /\ MarkedKeys(batches[b]) \subseteq Keys(batches[b].map)
            /\ \A b1, b2 \in 1..Len(batches) :
                   b1 # b2 => MarkedKeys(batches[b1]) \cap MarkedKeys(batches[b2]) = {}
            /\ UNION { MarkedKeys(batches[b]) : b \in 1..Len(batches) }
                   = Elems(call.texts.order)

\* seven keys three at a time: two full chunks and a last one of one key
C27_Witness ==
    /\ SplitCase
    /\ call.texts = source_of(7)
    /\ call.batch_size = 3
    /\ call.context_size = 2
    /\ Len(returned.value) = 3
    /\ MarkedKeys(returned.value[1]) = {"a", "b", "c"}
    /\ MarkedKeys(returned.value[2]) = {"d", "e", "f"}
    /\ MarkedKeys(returned.value[3]) = {"g"}

----------------------------------------------------------------------------
(* The requests of a payload *)

\* the keys of a payload that are to be translated: all but the marker
TranslatableKeys(texts) == Keys(texts.map) \ {"__core_keys__"}

\* the payload goes out whole, once for each target language
OneRequestPerLanguage ==
    /\ Len(returned.value) = Len(call.target_languages)
    /\ \A r \in 1..Len(returned.value) :
           /\ returned.value[r].target_lang = call.target_languages[r]
           /\ returned.value[r].texts = call.all_texts.map
           /\ returned.value[r].total_batches = 1

\* C28: a payload of at most batch_size translatable keys, one made by
\* get_context_for_keys included, yields exactly one request for each target
\* language, with exactly the keys of the payload and no boundary context
C28_SmallPayloadIsOneRequest ==
    (/\ PlannerDone("prepare_translation_requests")
     /\ Cardinality(TranslatableKeys(call.all_texts)) <= call.batch_size)
        => OneRequestPerLanguage

----------------------------------------------------------------------------
(* A run without the credential *)

\* a step of main() that does nothing but exit with a failure
ExitsWithFailure ==
    /\ phase = "start"
    /\ phase' = "aborted"
    /\ exit_code' = <<1>>
    /\ UNCHANGED <<exec_vars, file_vars, file_changes, all_translation_tasks, saved>>

\* C29: when the credential is missing at startup the only thing the run does
\* is to exit with a failure: the translator stays as it was, no request is
\* made or sent, no change item or task is drawn from the files, no store is
\* written, no cleanup pass runs, and nothing happens after the exit
C29_MissingCredentialAbortsAtOnce ==
    [][api_key = "" => ExitsWithFailure]_vars

\* a run that had sources and target languages to work on, and exited
C29_Witness ==
    /\ api_key = ""
    /\ phase = "aborted"
    /\ exit_code = <<1>>
    /\ reference # EmptyDict
    /\ TARGET_LANGUAGES # <<>>
    /\ requests = <<>>

----------------------------------------------------------------------------
(* Several added keys with the value of one deleted key *)

\* the added keys that carry the value of the deleted key kd
AddedWithValueOf(kd) ==
    { ka \in Keys(call.new.data) \ Keys(call.old.data) :
        call.new.data[ka] = call.old.data[kd] }

\* kd was deleted with a string value that no other deleted key had
UniquelyValuedDeletion(kd) ==
    /\ kd \in Keys(call.old.data) \ Keys(call.new.data)
    /\ isinstance_str(call.old.data[kd])
    /\ \A k \in Keys(call.old.data) \ Keys(call.new.data) :
           call.old.data[k] = call.old.data[kd] => k = kd

\* the modified entries that pair kd with an added key
PairingsOf(kd) ==
    { i \in 1..Len(returned.value.modified) :
        /\ returned.value.modified[i].key \in AddedWithValueOf(kd)
        /\ returned.value.modified[i].old_value = call.old.data[kd]
        /\ returned.value.modified[i].new_value = call.old.data[kd] }

----------------------------------------------------------------------------
(* The payload of get_context_for_keys for any list of target keys *)

\* the keys of the returned payload but its marker, in the payload's order
PayloadKeys == SelectSeq(returned.value.order, LAMBDA k : k # "__core_keys__")

TargetSet == { call.target_keys[p] : p \in 1..Len(call.target_keys) }

ReferenceKeySet == { call.source_dict.order[p] : p \in 1..Len(call.source_dict.order) }

PositionOf(k) == CHOOSE p \in 1..Len(call.source_dict.order) : call.source_dict.order[p] = k

\* the keys of the payload are keys of the reference, each once, in the order
\* of the reference
InReferenceOrder ==
    /\ \A p \in 1..Len(PayloadKeys) : PayloadKeys[p] \in ReferenceKeySet
    /\ \A p, q \in 1..Len(PayloadKeys) :
           p < q => PositionOf(PayloadKeys[p]) < PositionOf(PayloadKeys[q])

\* every key of the payload that is no target is within budget/2 places of one
ContextIsNearATarget ==
    \A p \in 1..Len(PayloadKeys) :
        PayloadKeys[p] \notin TargetSet =>
            \E t \in TargetSet \cap ReferenceKeySet :
                LET d == PositionOf(PayloadKeys[p]) - PositionOf(t)
                IN  /\ d <= call.max_context \div 2
                    /\ 0 - d <= call.max_context \div 2

MarkerIsTargetList ==
    /\ "__core_keys__" \in Keys(returned.value.map)
    /\ returned.value.map["__core_keys__"] =
           List([p \in 1..Len(call.target_keys) |-> <<call.target_keys[p]>>])

Windowed ==
    ~call.force_context /\ Len(call.source_dict.order) > call.max_context

\* C35 as stated: for any reference and any target list the payload holds every
\* target key, lists its keys in reference order without duplicates, holds no
\* key further than budget/2 from every target (reference larger than the
\* budget, not forced), and its marker is the target list
C35_PayloadHoldsEveryTarget ==
    PlannerDone("get_context_for_keys") =>
        /\ TargetSet \subseteq Elems(PayloadKeys)
        /\ InReferenceOrder
        /\ Windowed => ContextIsNearATarget
        /\ MarkerIsTargetList

\* C35 as amended: the payload holds every target key that is a key of the
\* reference (a target the reference does not have is in the marker only); the
\* rest as stated
C35_PayloadHoldsEveryKnownTarget ==
    PlannerDone("get_context_for_keys") =>
        /\ TargetSet \cap ReferenceKeySet \subseteq Elems(PayloadKeys)
        /\ Elems(PayloadKeys) \cap TargetSet \subseteq ReferenceKeySet
        /\ InReferenceOrder
        /\ Windowed => ContextIsNearATarget
        /\ MarkerIsTargetList

\* two targets given against the order of the reference, whose windows overlap
C35_Witness ==
    /\ PlannerDone("get_context_for_keys")
    /\ Windowed
    /\ Len(call.source_dict.order) = 7
    /\ call.max_context = 2
    /\ call.target_keys = <<"e", "c">>
    /\ PayloadKeys = <<"b", "c", "d", "e", "f">>

\* C36: when force_context is set or the reference has at most `budget` keys,
\* get_context_for_keys returns the whole reference - every key, in reference
\* order, with its value - followed by a marker equal to the target list,
\* whatever the targets are
C36_WholeReferenceWhenForcedOrSmall ==
    (PlannerDone("get_context_for_keys") /\ ~Windowed) =>
        /\ PayloadKeys = call.source_dict.order
        /\ returned.value.order = Append(call.source_dict.order, "__core_keys__")
        /\ \A k \in ReferenceKeySet : returned.value.map[k] = call.source_dict.map[k]
        /\ Keys(returned.value.map) = ReferenceKeySet \cup {"__core_keys__"}
        /\ MarkerIsTargetList

\* forced, for one target of a reference larger than the budget
C36_Witness ==
    /\ PlannerDone("get_context_for_keys")
    /\ call.force_context
    /\ Len(call.source_dict.order) = 7
    /\ call.max_context = 2
    /\ call.target_keys = <<"a">>
    /\ PayloadKeys = <<"a", "b", "c", "d", "e", "f", "g">>

----------------------------------------------------------------------------
(* The two failure counters of a request *)

CountersInRange ==
    \A r \in Workers :
        /\ api_failure_count[r] \in 0..MAX_INDIVIDUAL_RETRIES
        /\ validation_failure_count[r] \in 0..MAX_INDIVIDUAL_RETRIES

\* the step ends an attempt of request r: translate_batch returned or raised
AttemptEnds(r) ==
    /\ pc[r] \in {"translate", "call_api"}
    /\ pc'[r] \in {"loop", "done"}

CountersUnchanged(r) ==
    /\ api_failure_count'[r] = api_failure_count[r]
    /\ validation_failure_count'[r] = validation_failure_count[r]

OneCounterIncremented(r) ==
    \/ /\ api_failure_count'[r] = api_failure_count[r] + 1
       /\ validation_failure_count'[r] = validation_failure_count[r]
    \/ /\ validation_failure_count'[r] = validation_failure_count[r] + 1
       /\ api_failure_count'[r] = api_failure_count[r]

\* the request ends with a result, its counters as they were
EndsInSuccess(r) ==
    /\ pc'[r] = "done"
    /\ Keys(result'[r]) # {}
    /\ CountersUnchanged(r)

CountersStep ==
    \A r \in Workers :
        IF AttemptEnds(r)
        THEN EndsInSuccess(r) \/ OneCounterIncremented(r)
        ELSE CountersUnchanged(r)

\* C37: in every state of a request's execution both failure counters are
\* between 0 and MAX_INDIVIDUAL_RETRIES; an attempt either ends the request
\* with a result or adds one to exactly one of the counters and leaves the
\* other as it is; no other step changes a counter, so neither is ever reset
\* or decreased
C37_CountersAreBoundedAndMonotone ==
    []CountersInRange /\ [][CountersStep]_vars

\* a request that gave up on the API channel after validation failures too
C37_Witness ==
    /\ Workers = {1}
    /\ pc[1] = "done"
    /\ api_failure_count[1] = MAX_INDIVIDUAL_RETRIES
    /\ validation_failure_count[1] = MAX_INDIVIDUAL_RETRIES - 1
    /\ total_attempts[1] = 2 * MAX_INDIVIDUAL_RETRIES - 1

----------------------------------------------------------------------------
(* The variant setting after a run *)

AllTerminated == Workers # {} /\ \A r \in Workers : pc[r] = "done"

\* C38: once every request of a concurrent run has terminated, with a result
\* or without, the translator's variant setting is the one it was constructed
\* with
C38_VariantIsRestored ==
    AllTerminated => non_thinking_mode = configured_mode

----------------------------------------------------------------------------
(* The marker stays in the request *)

MarkerFree(d) == "__core_keys__" \notin Keys(d)

\* whatever the service replies to request r, a mapping that translate_batch
\* returns has no marker
AcceptedRepliesAreMarkerFree(r) ==
    \A outcome \in AttemptOutcomes[requests[r].texts] :
        ~outcome.ret.raised => MarkerFree(outcome.ret.value)

\* C39: the marker '__core_keys__' never leaves the request: it is not among
\* the keys sent to the service, no reply that carries it is accepted, and it
\* is never a key of a request's result, of a bucket of the accumulator or of
\* a persisted store
C39_MarkerStaysInTheRequest ==
    /\ \A r \in Workers :
           /\ MarkerFree(strip_core_keys_marker(requests[r].texts))
           /\ AcceptedRepliesAreMarkerFree(r)
           /\ MarkerFree(result[r])
    /\ \A n \in DOMAIN results_by_namespace_and_language :
           \A l \in DOMAIN results_by_namespace_and_language[n] :
               MarkerFree(results_by_namespace_and_language[n][l])
    /\ \A n \in DOMAIN store : \A l \in DOMAIN store[n] : MarkerFree(store[n][l].data)

\* a request that carried the marker was answered, collected and saved
C39_Witness ==
    /\ phase = "done"
    /\ \E r \in Workers :
          /\ ~MarkerFree(requests[r].texts)
          /\ r \in collected
          /\ \E k \in Keys(result[r]) :
                LET file == store[requests[r].namespace][requests[r].target_lang]
                IN  k \in Keys(file.data) /\ file.data[k] = result[r][k]

----------------------------------------------------------------------------
(* What the cleanup pass leaves alone *)

\* the keys of a store that the reference of its namespace does not have
StaleKeys(files, n, l) ==
    Keys(files[n][l].data) \ Keys(get_merged_reference_translations(n).map)

\* a step of the cleanup pass takes nothing but stale keys out of the stores,
\* leaves a store without stale keys as it is, and leaves nothing for a second
\* pass to write
CleanupFrame ==
    /\ \A n \in DOMAIN store : \A l \in DOMAIN store[n] :
           /\ Keys(store'[n][l].data) \subseteq Keys(store[n][l].data)
           /\ Keys(store[n][l].data) \ Keys(store'[n][l].data)
                  \subseteq StaleKeys(store, n, l)
           /\ \A k \in Keys(store'[n][l].data) :
                  store'[n][l].data[k] = store[n][l].data[k]
           /\ StaleKeys(store, n, l) = {} =>
                  /\ <<n, l>> \notin cleanup_writes(store)
                  /\ store'[n][l] = store[n][l]
    /\ cleanup_writes(store') = {}
    /\ perform_cleanup_extra_keys(store') = store'

\* C40: the cleanup pass changes nothing but stale keys: every key of a store
\* that the reference has keeps its value, a store without a stale key is not
\* rewritten, and a second pass right after the first writes nothing
C40_CleanupTouchesStaleKeysOnly ==
    [][phase = "cleanup" => CleanupFrame]_vars

\* an incremental run of two namespaces is over: the stale key of one store is
\* gone, its translated key is there, and the other store is as it was
C40_Witness ==
    /\ ~force_translate
    /\ phase = "done"
    /\ DOMAIN reference = {"ns1", "ns2"}
    /\ store["ns1"]["fr_fr"].exists
    /\ "obsolete" \notin Keys(store["ns1"]["fr_fr"].data)
    /\ Keys(store["ns1"]["fr_fr"].data) # {}
    /\ store["ns2"]["fr_fr"] = StoreOf({"k3"})

\* the diff of this run failed: the command ended with another status than
\* 0, or running it raised
DiffFailed == git_diff \in {"nonzero", "raises"}

\* what the scans for missing files and missing keys find in the stores
ScanChanges(files) ==
    create_virtual_changes_for_missing_files(check_missing_translation_files(files))
    \o create_virtual_changes_for_missing_keys(files)

\* the scan step of a run whose diff failed: nothing comes from the diff, the
\* change list is what the two scans find and the tasks are made from it, and
\* the run goes on to translating or to the cleanup pass without exiting
FailedDiffStep ==
    (phase = "start" /\ DiffFailed')
        => /\ file_changes' = ScanChanges(store)
           /\ all_translation_tasks' = smart_tasks(store, ScanChanges(store))
           /\ phase' = IF smart_tasks(store, ScanChanges(store)) = <<>>
                       THEN "cleanup" ELSE "prepare"
           /\ exit_code' = <<>>

HoldsStrings(namespace, lang_code) ==
    LET file == store[namespace][lang_code]
    IN  file.exists => \A k \in Keys(file.data) : isinstance_str(file.data[k])

\* C32: starting from stores whose values are all strings, in every state
\* that the merges and the cleanup passes reach every key of every persisted
\* (namespace, language) store maps to a string, never to a list or another
\* value, also when the reference value of the key is a list of candidates
C32_StoresHoldStrings ==
    \A namespace \in DOMAIN store : \A lang_code \in DOMAIN store[namespace] :
        HoldsStrings(namespace, lang_code)

\* a finished run wrote a translation for a key whose reference value is a
\* list of candidates
C32_Witness ==
    /\ phase = "done"
    /\ \E namespace \in DOMAIN store : \E lang_code \in DOMAIN store[namespace] :
          LET file == store[namespace][lang_code]
          IN  /\ file.exists
              /\ \E k \in Keys(file.data) \cap Keys(reference[namespace].map) :
                    /\ isinstance_list(reference[namespace].map[k])
                    /\ isinstance_str(file.data[k])
                    /\ file.data[k] # OLD

\* the keys that the change detector reclassified as renames in the changes
\* of namespace: the modified entries whose value did not change
RenamedKeys(namespace) ==
    UNION { { c.modified_keys[m].key :
                m \in { y \in 1..Len(c.modified_keys) :
                          c.modified_keys[y].old_value = c.modified_keys[y].new_value } } :
            c \in { x \in Elems(file_changes) : x.namespace = namespace } }

\* the earlier name of a renamed key is translated in the store of the task
AlreadyTranslated(task) == "obsolete" \in Keys(task.existing_translations)

\* C33: a key that the change detector reclassified as a rename of an
\* already-translated key is not among the keys to translate of a task of the
\* run, and no request sent to the service names it as such
C33_RenamedKeyIsNotSent ==
    /\ \A t \in 1..Len(all_translation_tasks) :
           LET task == all_translation_tasks[t]
           IN  AlreadyTranslated(task) =>
                   RenamedKeys(task.namespace) \cap Elems(task.keys_to_translate) = {}
    /\ phase = "execute" =>
           \A r \in Workers :
               (Sends(r) /\ total_attempts[r] > 0
                    /\ "obsolete" \in Keys(requests[r].existing_translations)) =>
                   RenamedKeys(requests[r].namespace)
                       \cap Elems(requests[r].keys_to_translate) = {}

====
